---- MODULE Spec2Model ----
(***************************************************************************)
(* fish-watcher: the rolling frame buffer, the per-type alert cooldown of  *)
(* the detection coordinator, the pre-roll/post-roll clip recorder and the *)
(* two watch loops (FishWatcher.start, TankWatcher._run_loop).             *)
(*                                                                         *)
(* Time is the value of time.time() in whole seconds; every read of the    *)
(* clock inside one call or one loop iteration returns the same value, and *)
(* the clock advances between calls and at the end of an iteration.        *)
(* Python values are tagged records: None is [kind |-> "None"], a str is   *)
(* [kind |-> "str", value |-> "..."].  The six detectors' image heuristics *)
(* are not modelled: a detector call either raises or returns a list of    *)
(* alerts, chosen nondeterministically.                                    *)
(***************************************************************************)
EXTENDS Integers, Sequences, FiniteSets, TLC

VARIABLES
    now,              \* the wall clock, time.time()
    constructed,      \* the RollingBuffer constructor returned an object
    max_frames,       \* RollingBuffer.max_frames
    buffer,           \* RollingBuffer.buffer (deque of BufferedFrame)
    frame_count,      \* RollingBuffer.frame_count
    recording,        \* ClipRecorder.recording
    recording_start,  \* ClipRecorder.recording_start
    current_frames,   \* ClipRecorder.current_frames
    current_alert,    \* ClipRecorder.current_alert
    last_alert_time,  \* FishWatcherDetector.last_alert_time
    kind,             \* which loop runs: "FishWatcher" or "TankWatcher"
    running,          \* the loop's running flag
    stopper,          \* where the thread calling TankWatcher.stop is: "idle", "joining", "done"
    pc,               \* where the loop thread is: "init", "loop", "exited", "raised"
    status,           \* TankWatcher.status
    camera,           \* the camera handle: "open", "released"
    sink,             \* frame sequences written through cv2.VideoWriter, in order
    notified,         \* (alert, clip_path) pairs given to notifier.notify, in order
    clips_recorded,   \* number of reports.record_clip() calls
    alerts_recorded,  \* alert types given to reports.record_alert, in order
    read_failures,    \* history: number of failed camera.read() calls
    op,               \* history: the operation that produced this state
    arg,              \* history: the inputs of that operation
    ret,              \* history: what that operation returned
    pre,              \* history: the recorder and coordinator fields before that operation
    fed,              \* history: the collaborators that were given the frame by that operation
    added,            \* history: every frame passed to RollingBuffer.add, in order
    cleared,          \* history: RollingBuffer.clear has been called
    seeded,           \* history: frames start_recording pulled from the buffer
    live,             \* history: frames passed to add_frame since start_recording
    emitted,          \* history: (type, time) of every alert process returned
    faulted,          \* history: the detectors that have raised in some process call
    caller_frame,     \* content of the frame object the caller of add holds
    lock,             \* RollingBuffer.lock: the threads inside a "with self.lock" block
    thread,           \* per thread that uses one RollingBuffer: its position and locals
    alert_log,        \* content of the file ClawdbotNotifier.alert_log
    pending_alert,    \* content of the file fish-watcher-pending-alert.json
    tank,             \* per TankWatcher: where its thread is in _send_notification, and locals
    logged,           \* history: the entries whose _log_alert call has returned, in order
    motion,           \* a MotionDetector: prev_frame, last_motion_time, motion_history,
                      \* baseline_motion
    zone,             \* a ZoneDetector: surface_activity_start
    zone_log,         \* history: (time, surface activity) of every frame the
                      \* ZoneDetector processed, in order
    fish_counter,     \* a FishCountDetector: config.fish_count, count_history,
                      \* baseline_count
    cool,             \* a CoolMomentDetector: activity_history, baseline_activity,
                      \* last_cool_moment
    cool_log,         \* history: (time, alerts returned) of every call of the
                      \* CoolMomentDetector's process, in order
    callers,          \* per thread that calls TankWatcher.start and stop: its position
    loops,            \* the threads TankWatcher.start has created, in order: their
                      \* positions in _run_loop
    self_thread,      \* TankWatcher.thread: 0 for None, else an index of loops
    held,             \* per lock (ClipRecorder.lock, RollingBuffer.lock): the thread
                      \* inside its "with" block, or "nobody"
    workers           \* per thread that uses one recorder and its buffer: the method
                      \* it is in, the locks it holds and those it still takes

vars == <<now, constructed, max_frames, buffer, frame_count, recording, recording_start,
          current_frames, current_alert, last_alert_time, kind, running, pc, status,
          stopper,
          camera, sink, notified, clips_recorded, alerts_recorded, op, arg, ret,
          pre, fed, added, cleared, seeded, live, emitted, read_failures, faulted,
          caller_frame, lock, thread, alert_log, pending_alert, tank, logged,
          motion, zone, zone_log, fish_counter, cool, cool_log,
          callers, loops, self_thread, held, workers>>

bufferVars == <<constructed, max_frames, buffer, frame_count, added, cleared>>
recorderVars == <<recording, recording_start, current_frames, current_alert,
                  sink, seeded, live>>
detectorVars == <<last_alert_time, emitted, faulted>>
loopVars == <<kind, stopper, running, pc, status, camera, notified, clips_recorded,
              alerts_recorded, read_failures>>
\* state of the callers and threads around the objects
callerVars == <<caller_frame>>
threadVars == <<lock, thread>>
tankVars == <<alert_log, pending_alert, tank, logged>>
\* the single detectors, used on their own
restartVars == <<callers, loops, self_thread>>
lockVars == <<held, workers>>
innerVars == <<motion, zone, zone_log, fish_counter, cool, cool_log, restartVars,
               lockVars>>
outsideVars == <<callerVars, threadVars, tankVars, innerVars>>
\* everything the single detectors leave alone
coreVars == <<bufferVars, recorderVars, detectorVars, loopVars, fed,
              callerVars, threadVars, tankVars>>

-----------------------------------------------------------------------------
(* Bounds of the model *)

MaxCapacity == 3      \* largest int(max_seconds * fps) tried
MaxAdds == 5          \* RollingBuffer.add calls per run
StartTime == 100      \* time.time() when the objects are constructed
BufferHorizon == 3    \* seconds of wall clock explored by SpecBuffer
MaxAlerts == 1        \* alerts one detector returns from one call
DetectorHorizon == 61  \* seconds of wall clock explored by SpecDetector
MaxSeed == 2          \* RollingBuffer.add calls per run of SpecRecorder
MaxLive == 2          \* add_frame calls on one recording
RecorderHorizon == 30 \* seconds of wall clock explored by SpecRecorder
LoopHorizon == 40     \* seconds of wall clock explored by Spec
MaxReadFailures == 1  \* failed camera reads per run
ThreadAdds == 2       \* RollingBuffer.add calls of the producer thread
ThreadHorizon == 1    \* seconds of wall clock explored by SpecThreads
MaxNotifications == 2 \* _send_notification calls per tank
MaxSaves == 1         \* clips written before a direct _save_clip call

Frames == {1, 2}      \* frame contents
BufferSteps == {1}    \* seconds that may pass between two buffer calls
DetectorSteps == {30, 31}       \* ... between two coordinator calls
RecorderSteps == {10, 20}       \* ... between two recorder calls
LoopSteps == {10, 30}           \* seconds one loop iteration may take
MotionSteps == {150, 151}        \* ... between two MotionDetector calls
MotionHorizon == 302  \* seconds of wall clock explored by SpecMotion
MaxMotionCalls == 3   \* MotionDetector.process calls per run
ZoneSteps == {30, 31}           \* ... between two ZoneDetector calls
ZoneHorizon == 62     \* seconds of wall clock explored by SpecZone
MaxZoneCalls == 4     \* ZoneDetector calls per run
Activities == {0, 5, 6}         \* percentages of bright pixels in the surface zone
Counts == {0, 4}                \* results of _count_fish_objects
ConfiguredCounts == {0, 3}      \* values of config.fish_count
MaxFishCalls == 6     \* FishCountDetector.process calls per run after the warm-up
Epoch == 1000         \* time.time() when the model clock reads 0
CoolActivities == {1, 13, 20}   \* results of _compute_activity
CoolSteps == {149, 150}         \* ... between two CoolMomentDetector calls
CoolHorizon == 300    \* seconds of wall clock explored by SpecCool
MaxCoolCalls == 4     \* CoolMomentDetector.process calls per run after the warm-up
MaxLoopThreads == 2   \* threads one TankWatcher creates per run
MaxCaptureDay == 9    \* days after the epoch of the latest capture time
CaptureSeconds == {0, 59, 3600, 46805, 86399}  \* capture times within a day

None == [kind |-> "None"]
Str(s) == [kind |-> "str", value |-> s]
Float(t) == [kind |-> "float", value |-> t]
EmptyDict == [k \in {} |-> 0]

Min(a, b) == IF a < b THEN a ELSE b

\* the history variable pre when the operation was none of the recorder's or
\* the coordinator's
NoPre == [recording |-> FALSE, recording_start |-> None, current_frames |-> <<>>,
          current_alert |-> None, last_alert_time |-> EmptyDict]

-----------------------------------------------------------------------------
(* src/buffer.py: RollingBuffer *)

BufferedFrame(f, t, n) == [frame |-> f, timestamp |-> t, frame_number |-> n]

\* a deque that forgot its maxlen
DequeAppendUnbounded(d, x, m) == Append(d, x)

\* collections.deque(maxlen=m).append(x): a full deque drops its left end
DequeAppend(d, x, m) ==
    IF m = 0 THEN d
    ELSE IF Len(d) >= m THEN Append(Tail(d), x)
    ELSE Append(d, x)

get_all == buffer

\* get_recent on the deque buf when time.time() is t
\* a window that leaves out the frame stored at the time of the call
GetRecentBeforeNow(buf, seconds, t) ==
    LET cutoff == t - seconds
        InWindow(f) == f.timestamp >= cutoff /\ f.timestamp < t
    IN SelectSeq(buf, InWindow)

GetRecent(buf, seconds, t) ==
    LET cutoff == t - seconds
        InWindow(f) == f.timestamp >= cutoff
    IN SelectSeq(buf, InWindow)

get_recent(seconds) == GetRecent(buffer, seconds, now)

duration ==
    IF Len(buffer) < 2 THEN 0
    ELSE buffer[Len(buffer)].timestamp - buffer[1].timestamp

\* what a stored frame is when it is the caller's array itself and not an
\* array of its own
CallerObject == 0

\* an add that keeps the caller's array
FrameAlias(f) == CallerObject

\* frame.copy(): a new array that holds the content f of the caller's array
FrameCopy(f) == f

\* the content read from a stored frame
Content(b) == IF b.frame = CallerObject THEN caller_frame ELSE b.frame

\* the caller of add writes v into the frame object it holds
mutate(v) ==
    /\ v # caller_frame
    /\ caller_frame' = v
    /\ op' = "mutate"
    /\ UNCHANGED innerVars
    /\ arg' = v
    /\ ret' = None
    /\ pre' = NoPre
    /\ UNCHANGED <<now, bufferVars, recorderVars, detectorVars, loopVars, fed,
                   threadVars, tankVars>>

\* RollingBuffer.__init__ with int(max_seconds * fps) = capacity returns an
\* object: collections.deque(maxlen=capacity) raises ValueError only for a
\* negative maxlen
Constructs(capacity) == capacity >= 0

BufferAdd(f) ==
    /\ buffer' = DequeAppend(buffer, BufferedFrame(FrameCopy(f), now, frame_count),
                              max_frames)
    /\ frame_count' = frame_count + 1
    /\ added' = Append(added, f)
    /\ UNCHANGED <<constructed, max_frames, cleared>>

add(f) ==
    /\ constructed
    /\ frame_count < MaxAdds
    /\ BufferAdd(f)
    /\ op' = "add"
    /\ UNCHANGED outsideVars
    /\ arg' = f
    /\ ret' = None
    /\ pre' = NoPre
    /\ UNCHANGED <<now, recorderVars, detectorVars, loopVars, fed>>

\* a clear that also restarts the numbering
clearResetsCounter ==
    /\ constructed
    /\ buffer' = <<>>
    /\ frame_count' = 0
    /\ cleared' = TRUE
    /\ op' = "clear"
    /\ arg' = None
    /\ ret' = None
    /\ pre' = NoPre
    /\ UNCHANGED <<now, constructed, max_frames, added, recorderVars,
                   detectorVars, loopVars, fed, outsideVars>>

clear ==
    /\ constructed
    /\ buffer' = <<>>
    /\ cleared' = TRUE
    /\ op' = "clear"
    /\ UNCHANGED outsideVars
    /\ arg' = None
    /\ ret' = None
    /\ pre' = NoPre
    /\ UNCHANGED <<now, constructed, max_frames, frame_count, added, recorderVars,
                   detectorVars, loopVars, fed>>

\* the wall clock advances by d seconds between two calls (h bounds the run)
Pass(d, h) ==
    /\ now + d <= StartTime + h
    /\ now' = now + d
    /\ op' = "pass"
    /\ UNCHANGED outsideVars
    /\ arg' = d
    /\ ret' = None
    /\ pre' = NoPre
    /\ UNCHANGED <<bufferVars, recorderVars, detectorVars, loopVars, fed>>

-----------------------------------------------------------------------------
(* src/buffer.py: one RollingBuffer used by a producer thread and readers *)

Producer == "producer"
Readers == {"reader_1", "reader_2"}
Threads == {Producer} \cup Readers
Methods == {"get_all", "get_recent", "duration"}
Windows == {1}     \* the seconds passed to get_recent

ProducerIdle == [pc |-> "idle", frame |-> 0]
ReaderIdle == [pc |-> "idle", method |-> "", seconds |-> 0, called_at |-> 0,
               waited |-> FALSE, value |-> None, seen |-> None]

\* a "with" block that does not wait for the lock
CanAcquireAlways(holders) == TRUE

\* "with self.lock:" is entered when no thread is inside such a block
CanAcquire(holders) == holders = {}

\* add, up to the entry of its with block
AddAcquire(f) ==
    /\ constructed
    /\ frame_count < ThreadAdds
    /\ thread[Producer].pc = "idle"
    /\ CanAcquire(lock)
    /\ lock' = lock \cup {Producer}
    /\ thread' = [thread EXCEPT ![Producer] = [pc |-> "locked", frame |-> f]]
    /\ op' = "AddAcquire"
    /\ UNCHANGED innerVars
    /\ arg' = f
    /\ ret' = None
    /\ pre' = NoPre
    /\ UNCHANGED <<now, bufferVars, recorderVars, detectorVars, loopVars, fed,
                   callerVars, tankVars>>

\* add: the BufferedFrame is built and appended
AddAppend ==
    /\ thread[Producer].pc = "locked"
    /\ buffer' = DequeAppend(buffer,
                     BufferedFrame(FrameCopy(thread[Producer].frame), now, frame_count),
                     max_frames)
    /\ thread' = [thread EXCEPT ![Producer].pc = "appended"]
    /\ op' = "AddAppend"
    /\ UNCHANGED innerVars
    /\ arg' = None
    /\ ret' = None
    /\ pre' = NoPre
    /\ UNCHANGED <<now, constructed, max_frames, frame_count, added, cleared,
                   recorderVars, detectorVars, loopVars, fed, callerVars, tankVars, lock>>

\* add: "self.frame_count += 1" and the end of the with block
AddCount ==
    /\ thread[Producer].pc = "appended"
    /\ frame_count' = frame_count + 1
    /\ added' = Append(added, thread[Producer].frame)
    /\ lock' = lock \ {Producer}
    /\ thread' = [thread EXCEPT ![Producer] = ProducerIdle]
    /\ op' = "AddCount"
    /\ UNCHANGED innerVars
    /\ arg' = None
    /\ ret' = None
    /\ pre' = NoPre
    /\ UNCHANGED <<now, constructed, max_frames, buffer, cleared, recorderVars,
                   detectorVars, loopVars, fed, callerVars, tankVars>>

\* reader r calls get_all, get_recent(seconds) or duration; get_recent takes
\* its cutoff from the clock before it asks for the lock
ReadCall(r, method, seconds) ==
    /\ constructed
    /\ thread[r].pc \in {"idle", "done"}
    /\ thread' = [thread EXCEPT ![r] =
                     [pc |-> "waiting", method |-> method, seconds |-> seconds,
                      called_at |-> now, waited |-> thread[Producer].pc = "appended",
                      value |-> None, seen |-> None]]
    /\ op' = "ReadCall"
    /\ UNCHANGED innerVars
    /\ arg' = [reader |-> r, method |-> method]
    /\ ret' = None
    /\ pre' = NoPre
    /\ UNCHANGED <<now, bufferVars, recorderVars, detectorVars, loopVars, fed,
                   callerVars, tankVars, lock>>

\* reader r runs the with block of its method; `seen` keeps the fields of the
\* buffer at that moment
ReadLocked(r) ==
    /\ thread[r].pc = "waiting"
    /\ CanAcquire(lock)
    /\ LET value == CASE thread[r].method = "get_all" -> get_all
                       [] thread[r].method = "get_recent" ->
                             GetRecent(buffer, thread[r].seconds, thread[r].called_at)
                       [] OTHER -> duration
       IN thread' = [thread EXCEPT ![r].pc = "done", ![r].value = value,
                        ![r].seen = [buffer |-> buffer, frame_count |-> frame_count]]
    /\ op' = "ReadLocked"
    /\ UNCHANGED innerVars
    /\ arg' = [reader |-> r]
    /\ ret' = thread'[r].value
    /\ pre' = NoPre
    /\ UNCHANGED <<now, bufferVars, recorderVars, detectorVars, loopVars, fed,
                   callerVars, tankVars, lock>>

-----------------------------------------------------------------------------
(* src/detector.py: Alert and FishWatcherDetector *)

AlertTypes == {"no_motion", "motion_spike"}     \* two of the AlertType values

\* two of the six detectors of FishWatcherDetector.detectors, in list order
detectors == <<"MotionDetector", "FishCountDetector">>

cooldown == 60

Alert(T, t) == [kind |-> "Alert", type |-> T, timestamp |-> t]

\* dict.get(k, default) and d[k] = v
DictGet(d, k, default) == IF k \in DOMAIN d THEN d[k] ELSE default
DictSetDropped(d, k, v) == d
DictSet(d, k, v) == [x \in DOMAIN d \cup {k} |-> IF x = k THEN v ELSE d[x]]

\* a cooldown test that lets every alert through
CheckCooldownAlways(last, alert_type, t) == TRUE

\* a cooldown test that forgot self.cooldown
CheckCooldownForgotten(last, alert_type, t) ==
    t - DictGet(last, alert_type, 0) > 0

_check_cooldown(last, alert_type, t) ==
    t - DictGet(last, alert_type, 0) > cooldown

\* What one detector's process(frame) does on a call: it raises, or it returns
\* a list of alerts (given here by their types).
Raises == [raised |-> TRUE, alerts |-> <<>>]
Returns(types) == [raised |-> FALSE, alerts |-> types]

RECURSIVE SeqsUpTo(_, _)
SeqsUpTo(S, n) ==
    IF n = 0 THEN {<<>>}
    ELSE LET shorter == SeqsUpTo(S, n - 1)
         IN shorter \cup {Append(q, x) : q \in shorter, x \in S}

DetectorOutcomes == {Raises} \cup {Returns(q) : q \in SeqsUpTo(AlertTypes, MaxAlerts)}

\* the inner loop of process over one detector's alerts; acc is
\* [all_alerts, last_alert_time]
RECURSIVE FilterAlerts(_, _, _)
FilterAlerts(types, acc, t) ==
    IF types = <<>> THEN acc
    ELSE LET T == Head(types)
         IN IF _check_cooldown(acc.last_alert_time, T, t)
            THEN FilterAlerts(Tail(types),
                     [all_alerts |-> Append(acc.all_alerts, Alert(T, t)),
                      last_alert_time |-> DictSet(acc.last_alert_time, T, t)], t)
            ELSE FilterAlerts(Tail(types), acc, t)

\* a loop over the detectors that the first exception ends
RECURSIVE RunDetectorsAborts(_, _, _)
RunDetectorsAborts(outcomes, acc, t) ==
    IF outcomes = <<>> THEN acc
    ELSE LET o == Head(outcomes)
         IN IF o.raised
            THEN acc
            ELSE RunDetectorsAborts(Tail(outcomes), FilterAlerts(o.alerts, acc, t), t)

\* the outer loop of process over the detectors; a detector that raises is
\* logged and skipped
RECURSIVE RunDetectors(_, _, _)
RunDetectors(outcomes, acc, t) ==
    IF outcomes = <<>> THEN acc
    ELSE LET o == Head(outcomes)
         IN IF o.raised
            THEN RunDetectors(Tail(outcomes), acc, t)
            ELSE RunDetectors(Tail(outcomes), FilterAlerts(o.alerts, acc, t), t)

\* FishWatcherDetector.process: [all_alerts, last_alert_time] after the call
Process(outcomes, last, t) ==
    RunDetectors(outcomes, [all_alerts |-> <<>>, last_alert_time |-> last], t)

\* the detectors whose process raised in this call
Raisers(outcomes) == {i \in DOMAIN outcomes : outcomes[i].raised}

Emissions(alerts) == [i \in 1..Len(alerts) |-> <<alerts[i].type, alerts[i].timestamp>>]

Snapshot == [recording |-> recording, recording_start |-> recording_start,
             current_frames |-> current_frames, current_alert |-> current_alert,
             last_alert_time |-> last_alert_time]

process(outcomes) ==
    LET r == Process(outcomes, last_alert_time, now)
    IN /\ last_alert_time' = r.last_alert_time
       /\ emitted' = emitted \o Emissions(r.all_alerts)
       /\ faulted' = faulted \cup Raisers(outcomes)
       /\ op' = "process"
       /\ UNCHANGED outsideVars
       /\ arg' = outcomes
       /\ ret' = r.all_alerts
       /\ pre' = Snapshot
       /\ UNCHANGED <<now, bufferVars, recorderVars, loopVars, fed>>

-----------------------------------------------------------------------------
(* src/recorder.py, src/highlights.py, src/tank_mood.py: clip file names as
   sequences of characters *)

AlertTypeValues ==
    { "no_motion",
      "motion_spike",
      "fish_floating",
      "fish_stuck_bottom",
      "erratic_swimming",
      "gasping_surface",
      "fish_aggression",
      "color_change",
      "water_cloudy",
      "algae_growth",
      "water_level_drop",
      "filter_stopped",
      "light_stuck",
      "surface_activity",
      "hiding_too_long",
      "missed_feeding",
      "fish_clustering",
      "low_activity",
      "interesting_moment",
      "feeding_frenzy",
      "fish_playing",
      "new_behavior" }

\* the characters of an AlertType value
Chars(v) ==
    CASE v = "no_motion" -> <<"n", "o", "_", "m", "o", "t", "i", "o", "n">>
      [] v = "motion_spike" -> <<"m", "o", "t", "i", "o", "n", "_", "s", "p", "i", "k", "e">>
      [] v = "fish_floating" -> <<"f", "i", "s", "h", "_", "f", "l", "o", "a", "t", "i", "n", "g">>
      [] v = "fish_stuck_bottom" -> <<"f", "i", "s", "h", "_", "s", "t", "u", "c", "k", "_", "b", "o", "t", "t", "o", "m">>
      [] v = "erratic_swimming" -> <<"e", "r", "r", "a", "t", "i", "c", "_", "s", "w", "i", "m", "m", "i", "n", "g">>
      [] v = "gasping_surface" -> <<"g", "a", "s", "p", "i", "n", "g", "_", "s", "u", "r", "f", "a", "c", "e">>
      [] v = "fish_aggression" -> <<"f", "i", "s", "h", "_", "a", "g", "g", "r", "e", "s", "s", "i", "o", "n">>
      [] v = "color_change" -> <<"c", "o", "l", "o", "r", "_", "c", "h", "a", "n", "g", "e">>
      [] v = "water_cloudy" -> <<"w", "a", "t", "e", "r", "_", "c", "l", "o", "u", "d", "y">>
      [] v = "algae_growth" -> <<"a", "l", "g", "a", "e", "_", "g", "r", "o", "w", "t", "h">>
      [] v = "water_level_drop" -> <<"w", "a", "t", "e", "r", "_", "l", "e", "v", "e", "l", "_", "d", "r", "o", "p">>
      [] v = "filter_stopped" -> <<"f", "i", "l", "t", "e", "r", "_", "s", "t", "o", "p", "p", "e", "d">>
      [] v = "light_stuck" -> <<"l", "i", "g", "h", "t", "_", "s", "t", "u", "c", "k">>
      [] v = "surface_activity" -> <<"s", "u", "r", "f", "a", "c", "e", "_", "a", "c", "t", "i", "v", "i", "t", "y">>
      [] v = "hiding_too_long" -> <<"h", "i", "d", "i", "n", "g", "_", "t", "o", "o", "_", "l", "o", "n", "g">>
      [] v = "missed_feeding" -> <<"m", "i", "s", "s", "e", "d", "_", "f", "e", "e", "d", "i", "n", "g">>
      [] v = "fish_clustering" -> <<"f", "i", "s", "h", "_", "c", "l", "u", "s", "t", "e", "r", "i", "n", "g">>
      [] v = "low_activity" -> <<"l", "o", "w", "_", "a", "c", "t", "i", "v", "i", "t", "y">>
      [] v = "interesting_moment" -> <<"i", "n", "t", "e", "r", "e", "s", "t", "i", "n", "g", "_", "m", "o", "m", "e", "n", "t">>
      [] v = "feeding_frenzy" -> <<"f", "e", "e", "d", "i", "n", "g", "_", "f", "r", "e", "n", "z", "y">>
      [] v = "fish_playing" -> <<"f", "i", "s", "h", "_", "p", "l", "a", "y", "i", "n", "g">>
      [] v = "new_behavior" -> <<"n", "e", "w", "_", "b", "e", "h", "a", "v", "i", "o", "r">>

DigitChars == <<"0", "1", "2", "3", "4", "5", "6", "7", "8", "9">>
IsDigit(c) == \E i \in DOMAIN DigitChars : DigitChars[i] = c
DigitValue(c) == (CHOOSE i \in DOMAIN DigitChars : DigitChars[i] = c) - 1

\* n written with exactly width digits, zero padded
RECURSIVE Digits(_, _)
Digits(n, width) ==
    IF width = 0 THEN <<>>
    ELSE Digits(n \div 10, width - 1) \o <<DigitChars[(n % 10) + 1]>>

RECURSIVE Number(_)
Number(cs) ==
    IF cs = <<>> THEN 0 ELSE 10 * Number(SubSeq(cs, 1, Len(cs) - 1))
                             + DigitValue(cs[Len(cs)])

\* time.localtime for a clock t within January 1970
LocalTime(t) ==
    [year |-> 1970, month |-> 1, day |-> 1 + t \div 86400,
     hour |-> (t % 86400) \div 3600, minute |-> (t % 3600) \div 60,
     second |-> t % 60]

\* time.strftime("%Y%m%d_%H%M%S")
StrftimeChars(t) ==
    LET lt == LocalTime(t)
    IN Digits(lt.year, 4) \o Digits(lt.month, 2) \o Digits(lt.day, 2) \o <<"_">>
       \o Digits(lt.hour, 2) \o Digits(lt.minute, 2) \o Digits(lt.second, 2)

\* f"{timestamp}_{alert_type}.{self.format}" with format "mp4"
ClipFileName(alert_type, t) ==
    StrftimeChars(t) \o <<"_">> \o Chars(alert_type) \o <<".", "m", "p", "4">>

\* Path.stem: the name without its last suffix
Stem(name) ==
    LET dots == {i \in DOMAIN name : name[i] = "."}
    IN IF dots = {} \/ dots = {1} THEN name
       ELSE SubSeq(name, 1, (CHOOSE i \in dots : \A j \in dots : j <= i) - 1)

\* index of the first "_" of cs at or after position from, 0 if there is none
FirstUnderscore(cs, from) ==
    LET at == {i \in from..Len(cs) : cs[i] = "_"}
    IN IF at = {} THEN 0 ELSE CHOOSE i \in at : \A j \in at : i <= j

\* str.split("_"): a split at every "_", whatever maxsplit is
RECURSIVE SplitAll(_, _)
SplitAll(cs, maxsplit) ==
    LET u == FirstUnderscore(cs, 1)
    IN IF u = 0 THEN <<cs>>
       ELSE <<SubSeq(cs, 1, u - 1)>> \o SplitAll(SubSeq(cs, u + 1, Len(cs)), maxsplit)

\* str.split("_", maxsplit)
RECURSIVE Split(_, _)
Split(cs, maxsplit) ==
    LET u == FirstUnderscore(cs, 1)
    IN IF maxsplit = 0 \/ u = 0 THEN <<cs>>
       ELSE <<SubSeq(cs, 1, u - 1)>>
            \o Split(SubSeq(cs, u + 1, Len(cs)), maxsplit - 1)

\* datetime.strptime(f"{date}_{time}", "%Y%m%d_%H%M%S"): the datetime, or
\* None where strptime raises ValueError
Strptime(date, time) ==
    IF /\ Len(date) = 8 /\ Len(time) = 6
       /\ \A i \in DOMAIN date : IsDigit(date[i])
       /\ \A i \in DOMAIN time : IsDigit(time[i])
    THEN LET dt == [year |-> Number(SubSeq(date, 1, 4)),
                    month |-> Number(SubSeq(date, 5, 6)),
                    day |-> Number(SubSeq(date, 7, 8)),
                    hour |-> Number(SubSeq(time, 1, 2)),
                    minute |-> Number(SubSeq(time, 3, 4)),
                    second |-> Number(SubSeq(time, 5, 6))]
         IN IF /\ dt.year >= 1 /\ dt.month \in 1..12 /\ dt.day \in 1..31
               /\ dt.hour <= 23 /\ dt.minute <= 59 /\ dt.second <= 61
            THEN dt ELSE None
    ELSE None

\* what get_clips and get_clip_stats read from one file name: None for a
\* name they skip
ParseClipName(name) ==
    LET parts == Split(Stem(name), 2)
    IN IF Len(parts) < 3 THEN None
       ELSE LET dt == Strptime(parts[1], parts[2])
            IN IF dt = None THEN None
               ELSE [kind |-> "clip", timestamp |-> dt, alert_type |-> parts[3]]

\* a clip saved by _save_clip for an alert of type alert_type at clock t, and
\* the consumers' reading of the name
ClipNamed(alert_type, t) ==
    LET name == ClipFileName(alert_type, t)
    IN /\ op' = "ClipNamed"
       /\ arg' = [alert_type |-> alert_type, t |-> t]
       /\ ret' = [name |-> name, get_clips |-> ParseClipName(name),
                  get_clip_stats |-> ParseClipName(name)]
       /\ pre' = NoPre
       /\ UNCHANGED <<now, coreVars, innerVars>>

-----------------------------------------------------------------------------
(* src/detector.py: MotionDetector *)

motion_sensitivity == 50
no_motion_threshold == 300
BaselineSamples == 100

\* a frame as the detector keeps it: the blurred grey image of content f
Gray(f) == [kind |-> "ndarray", value |-> f]

MotionDetectorInit(t) ==
    [prev_frame |-> None, last_motion_time |-> t, motion_history |-> <<>>,
     baseline_motion |-> None]

\* a test for the first call that never finds one
IsFirstCallNever(m) == FALSE

\* "if self.prev_frame is None"
IsFirstCall(m) == m.prev_frame = None

\* _compute_motion_level for uniform frames: every pixel differs by more than
\* 25 or none does, so the percentage of changed pixels is 100 or 0
ComputeMotionLevel(prev, gray) == IF prev = gray THEN 0 ELSE 100

RECURSIVE SumSeq(_)
SumSeq(q) == IF q = <<>> THEN 0 ELSE Head(q) + SumSeq(Tail(q))

\* np.mean as the exact fraction sum / n
Mean(q) == [kind |-> "float", sum |-> SumSeq(q), n |-> Len(q)]

\* "not x" for an Optional[float] kept as a fraction
Falsy(x) == x = None \/ x.sum = 0

LastN(q, k) == IF Len(q) <= k THEN q ELSE SubSeq(q, Len(q) - k + 1, Len(q))

UpdateBaseline(m) ==
    IF Len(m.motion_history) > BaselineSamples
    THEN [m EXCEPT !.baseline_motion = Mean(m.motion_history)]
    ELSE m

\* level > baseline * 5, elif level > baseline * 3
CheckMotionSpikes(m, level) ==
    IF Falsy(m.baseline_motion) THEN <<>>
    ELSE IF level * m.baseline_motion.n > m.baseline_motion.sum * 5
         THEN <<"erratic_swimming">>
    ELSE IF level * m.baseline_motion.n > m.baseline_motion.sum * 3
         THEN <<"motion_spike">>
    ELSE <<>>

CheckNoMotion(m, t) ==
    IF t - m.last_motion_time > no_motion_threshold THEN <<"no_motion">> ELSE <<>>

\* recent_avg < baseline * 0.3
CheckLowActivity(m) ==
    IF Falsy(m.baseline_motion) \/ Len(m.motion_history) <= BaselineSamples
    THEN <<>>
    ELSE LET recent == Mean(LastN(m.motion_history, 100))
         IN IF recent.sum * m.baseline_motion.n * 10
                   < m.baseline_motion.sum * 3 * recent.n
            THEN <<"low_activity">> ELSE <<>>

\* MotionDetector.process on detector m: the detector after it and the types
\* of the alerts returned
MotionProcess(m, f, t) ==
    IF IsFirstCall(m)
    THEN [det |-> [m EXCEPT !.prev_frame = Gray(f)], alerts |-> <<>>]
    ELSE LET level == ComputeMotionLevel(m.prev_frame, Gray(f))
             m1 == UpdateBaseline([m EXCEPT !.prev_frame = Gray(f),
                                            !.motion_history = Append(@, level)])
             moved == level * 10 > 100 - motion_sensitivity
             m2 == IF moved THEN [m1 EXCEPT !.last_motion_time = t] ELSE m1
         IN [det |-> m2,
             alerts |-> (IF moved THEN CheckMotionSpikes(m1, level) ELSE <<>>)
                        \o CheckNoMotion(m2, t) \o CheckLowActivity(m2)]

MotionDetectorProcess(f) ==
    LET r == MotionProcess(motion, f, now)
    IN /\ Len(motion.motion_history) < MaxMotionCalls
       /\ motion' = r.det
       /\ op' = "MotionDetector.process"
       /\ arg' = [frame |-> f]
       /\ ret' = r.alerts
       /\ pre' = motion
       /\ UNCHANGED <<now, coreVars, zone, zone_log, fish_counter, cool, cool_log,
                   restartVars, lockVars>>

-----------------------------------------------------------------------------
(* src/detector.py: ZoneDetector, the surface timer *)

surface_threshold == 5
gasping_after == 60
surface_after == 30

ZoneDetectorInit == [surface_activity_start |-> None]

\* a frame at or below the threshold that leaves the timer running
ResetTimerKept(z) == z

\* "self.surface_activity_start = None"
ResetTimer(z) == [z EXCEPT !.surface_activity_start = None]

\* _check_surface_activity on detector z for a frame whose surface zone has
\* surface_activity percent of bright pixels
CheckSurfaceActivity(z, surface_activity, t) ==
    IF surface_activity > surface_threshold
    THEN IF z.surface_activity_start = None
         THEN [det |-> [z EXCEPT !.surface_activity_start = Float(t)],
               alerts |-> <<>>]
         ELSE LET lasted == t - z.surface_activity_start.value
              IN [det |-> z,
                  alerts |-> IF lasted > gasping_after THEN <<"gasping_surface">>
                             ELSE IF lasted > surface_after
                                  THEN <<"surface_activity">>
                             ELSE <<>>]
    ELSE [det |-> ResetTimer(z), alerts |-> <<>>]

_check_surface_activity(surface_activity) ==
    LET r == CheckSurfaceActivity(zone, surface_activity, now)
    IN /\ Len(zone_log) < MaxZoneCalls
       /\ zone' = r.det
       /\ zone_log' = Append(zone_log, [t |-> now, activity |-> surface_activity])
       /\ op' = "_check_surface_activity"
       /\ arg' = [surface_activity |-> surface_activity]
       /\ ret' = r.alerts
       /\ pre' = zone
       /\ UNCHANGED <<now, coreVars, motion, fish_counter, cool, cool_log,
                   restartVars, lockVars>>

-----------------------------------------------------------------------------
(* src/detector.py: FishCountDetector *)

count_history_maxlen == 100
baseline_after == 50
recent_counts == 10

PyInt(n) == [kind |-> "int", value |-> n]

FishCountDetectorInit(configured) ==
    [fish_count |-> configured, count_history |-> <<>>, baseline_count |-> None]

RECURSIVE Insert(_, _)
Insert(x, sorted) ==
    IF sorted = <<>> THEN <<x>>
    ELSE IF x <= Head(sorted) THEN <<x>> \o sorted
    ELSE <<Head(sorted)>> \o Insert(x, Tail(sorted))

RECURSIVE Sorted(_)
Sorted(q) == IF q = <<>> THEN <<>> ELSE Insert(Head(q), Sorted(Tail(q)))

\* twice np.median of a non-empty list: the middle element, or the mean of the
\* two middle elements
Median2(q) ==
    LET srt == Sorted(q)
        n == Len(q)
    IN IF n % 2 = 1 THEN 2 * srt[(n + 1) \div 2]
       ELSE srt[n \div 2] + srt[n \div 2 + 1]

\* int(np.median(q)) for counts, which are not negative
IntMedian(q) == Median2(q) \div 2

EstablishBaseline(d) ==
    IF d.baseline_count = None /\ Len(d.count_history) >= baseline_after
    THEN [d EXCEPT !.baseline_count = PyInt(IntMedian(d.count_history))]
    ELSE d

\* "not self.baseline_count"
BaselineMissing(d) == d.baseline_count = None \/ d.baseline_count.value = 0

CheckMissingFish(d) ==
    IF BaselineMissing(d) \/ Len(d.count_history) < recent_counts THEN <<>>
    ELSE LET recent_count == IntMedian(LastN(d.count_history, recent_counts))
             expected == IF d.fish_count > 0 THEN d.fish_count
                         ELSE d.baseline_count.value
         IN IF recent_count < expected - 1 THEN <<"no_motion">> ELSE <<>>

FishCountProcess(d, fish_count) ==
    LET d1 == [d EXCEPT !.count_history =
                   DequeAppend(@, fish_count, count_history_maxlen)]
        d2 == EstablishBaseline(d1)
    IN [det |-> d2, alerts |-> CheckMissingFish(d2)]

FishCountDetectorProcess(fish_count) ==
    LET r == FishCountProcess(fish_counter, fish_count)
    IN /\ Len(fish_counter.count_history) < baseline_after - 1 + MaxFishCalls
       /\ fish_counter' = r.det
       /\ op' = "FishCountDetector.process"
       /\ arg' = [fish_count |-> fish_count]
       /\ ret' = r.alerts
       /\ pre' = fish_counter
       /\ UNCHANGED <<now, coreVars, motion, zone, zone_log, cool, cool_log,
                   restartVars, lockVars>>

-----------------------------------------------------------------------------
(* src/detector.py: CoolMomentDetector *)

activity_history_maxlen == 100
cool_moment_cooldown == 300
cool_baseline_after == 50
cool_recent == 10

\* last_cool_moment starts at 0, the epoch
CoolMomentDetectorInit ==
    [activity_history |-> <<>>, baseline_activity |-> None, last_cool_moment |-> 0]

\* a cooldown test that never holds a call back
InCoolMomentCooldownNever(c, t) == FALSE

\* "time.time() - self.last_cool_moment < self.cooldown"
InCoolMomentCooldown(c, t) == t - c.last_cool_moment < cool_moment_cooldown

CoolEstablishBaseline(c) ==
    IF c.baseline_activity = None /\ Len(c.activity_history) >= cool_baseline_after
    THEN [c EXCEPT !.baseline_activity = Mean(c.activity_history)]
    ELSE c

\* recent > baseline * 2, elif recent > baseline * 1.5, on exact fractions
CheckInterestingActivity(c, t) ==
    IF Len(c.activity_history) < cool_recent THEN [det |-> c, alerts |-> <<>>]
    ELSE LET recent == Mean(LastN(c.activity_history, cool_recent))
             base == c.baseline_activity
         IN IF recent.sum * base.n > base.sum * 2 * recent.n
            THEN [det |-> [c EXCEPT !.last_cool_moment = t],
                  alerts |-> <<"feeding_frenzy">>]
            ELSE IF recent.sum * base.n * 2 > base.sum * 3 * recent.n
            THEN [det |-> [c EXCEPT !.last_cool_moment = t],
                  alerts |-> <<"interesting_moment">>]
            ELSE [det |-> c, alerts |-> <<>>]

\* CoolMomentDetector.process on detector c when time.time() is t
CoolMomentProcess(c, activity, t) ==
    IF InCoolMomentCooldown(c, t) THEN [det |-> c, alerts |-> <<>>]
    ELSE LET c1 == CoolEstablishBaseline(
                       [c EXCEPT !.activity_history =
                            DequeAppend(@, activity, activity_history_maxlen)])
         IN IF c1.baseline_activity = None THEN [det |-> c1, alerts |-> <<>>]
            ELSE CheckInterestingActivity(c1, t)

CoolMomentDetectorProcess(activity) ==
    LET r == CoolMomentProcess(cool, activity, Epoch + now)
    IN /\ Len(cool_log) < MaxCoolCalls
       /\ cool' = r.det
       /\ cool_log' = Append(cool_log, [t |-> now, alerts |-> r.alerts])
       /\ op' = "CoolMomentDetector.process"
       /\ arg' = [activity |-> activity]
       /\ ret' = r.alerts
       /\ pre' = cool
       /\ UNCHANGED <<now, coreVars, motion, zone, zone_log, fish_counter,
                   restartVars, lockVars>>

-----------------------------------------------------------------------------
(* src/recorder.py: ClipRecorder *)

pre_roll == 10
post_roll == 30
output_dir == "clips"
format == "mp4"

ThisRecorder == [recording |-> recording, recording_start |-> recording_start,
                 current_frames |-> current_frames, current_alert |-> current_alert]

FramesOf(buffered) == [i \in 1..Len(buffered) |-> buffered[i].frame]

\* start_recording without the early return
StartRecordingRestarts(r, recent, alert, t) ==
    [recording |-> TRUE,
     recording_start |-> Float(t),
     current_alert |-> alert,
     current_frames |-> FramesOf(recent)]

\* start_recording on recorder r; recent is buffer.get_recent(self.pre_roll)
StartRecording(r, recent, alert, t) ==
    IF r.recording THEN r
    ELSE [recording |-> TRUE,
          recording_start |-> Float(t),
          current_alert |-> alert,
          current_frames |-> FramesOf(recent)]

\* time.strftime("%Y%m%d_%H%M%S") for a clock t within the first day
Pad2(n) == IF n < 10 THEN "0" \o ToString(n) ELSE ToString(n)
Strftime(t) ==
    "19700101_" \o Pad2(t \div 3600) \o Pad2((t % 3600) \div 60) \o Pad2(t % 60)

\* _save_clip: the recorder after it, the value returned and the frame
\* sequences given to the video writer (none or one)
SaveClip(r, t) ==
    LET alert_type == IF r.current_alert # None THEN r.current_alert.type
                      ELSE "unknown"
        filename == Strftime(t) \o "_" \o alert_type \o "." \o format
        filepath == output_dir \o "/" \o filename
    IN IF r.current_frames = <<>>
       THEN [rec |-> [r EXCEPT !.recording = FALSE],
             ret |-> Str(""),
             written |-> <<>>]
       ELSE [rec |-> [r EXCEPT !.recording = FALSE,
                               !.current_frames = <<>>,
                               !.current_alert = None],
             ret |-> Str(filepath),
             written |-> <<r.current_frames>>]

\* a post-roll test against the whole clip duration
TotalDurationComplete(elapsed) == elapsed >= pre_roll + post_roll

\* the post-roll test of add_frame
PostRollComplete(elapsed) == elapsed >= post_roll

\* add_frame that tests the post-roll before it appends the frame
AddFrameSavesFirst(r, frame, t) ==
    IF ~r.recording THEN [rec |-> r, ret |-> None, written |-> <<>>]
    ELSE IF PostRollComplete(t - r.recording_start.value) THEN SaveClip(r, t)
    ELSE [rec |-> [r EXCEPT !.current_frames = Append(@, frame)],
          ret |-> None, written |-> <<>>]

\* add_frame on recorder r
AddFrame(r, frame, t) ==
    IF ~r.recording THEN [rec |-> r, ret |-> None, written |-> <<>>]
    ELSE LET r1 == [r EXCEPT !.current_frames = Append(@, frame)]
             elapsed == t - r.recording_start.value
         IN IF PostRollComplete(elapsed) THEN SaveClip(r1, t)
            ELSE [rec |-> r1, ret |-> None, written |-> <<>>]

SetRecorder(r) ==
    /\ recording' = r.recording
    /\ recording_start' = r.recording_start
    /\ current_frames' = r.current_frames
    /\ current_alert' = r.current_alert

start_recording(alert) ==
    LET recent == get_recent(pre_roll)
    IN /\ SetRecorder(StartRecording(ThisRecorder, recent, alert, now))
       /\ seeded' = IF recording THEN seeded ELSE recent
       /\ live' = IF recording THEN live ELSE <<>>
       /\ op' = "start_recording"
       /\ UNCHANGED outsideVars
       /\ arg' = alert
       /\ ret' = None
       /\ pre' = Snapshot
       /\ UNCHANGED <<now, bufferVars, detectorVars, loopVars, sink, fed>>

add_frame(f) ==
    LET r == AddFrame(ThisRecorder, f, now)
    IN /\ SetRecorder(r.rec)
       /\ sink' = sink \o r.written
       /\ live' = IF recording THEN Append(live, f) ELSE live
       /\ op' = "add_frame"
       /\ UNCHANGED outsideVars
       /\ arg' = f
       /\ ret' = r.ret
       /\ pre' = Snapshot
       /\ UNCHANGED <<now, bufferVars, detectorVars, loopVars, seeded, fed>>

\* ClipRecorder._save_clip called on its own.  `opened` is whether the
\* cv2.VideoWriter it constructs could open the output file; the method never
\* asks the writer (no isOpened test), so the flag changes nothing it does.
_save_clip(opened) ==
    LET r == SaveClip(ThisRecorder, now)
    IN /\ SetRecorder(r.rec)
       /\ sink' = sink \o r.written
       /\ op' = "_save_clip"
       /\ UNCHANGED outsideVars
       /\ arg' = [opened |-> opened]
       /\ ret' = r.ret
       /\ pre' = Snapshot
       /\ UNCHANGED <<now, bufferVars, detectorVars, loopVars, seeded, live, fed>>

-----------------------------------------------------------------------------
(* src/watcher.py: FishWatcher.start; src/multi_tank.py: TankWatcher._run_loop *)

\* Python truth value of None, a str or an Alert
Truthy(v) ==
    IF v.kind = "None" THEN FALSE
    ELSE IF v.kind = "str" THEN v.value # ""
    ELSE TRUE

\* an unpacking that takes v as the path and no alert
UnpackAsPath(v) == [ok |-> TRUE, first |-> v, second |-> None]

\* "clip_path, alert = v": only a value of exactly two items can be unpacked;
\* None raises TypeError, a str of another length raises ValueError
Unpack2(v) ==
    IF v.kind = "str" /\ Len(v.value) = 2
    THEN [ok |-> TRUE, first |-> Str(SubSeq(v.value, 1, 1)),
          second |-> Str(SubSeq(v.value, 2, 2))]
    ELSE [ok |-> FALSE, first |-> None, second |-> None]

\* _send_notification: the calls of notifier.notify it makes
SendNotification(alert, clip_path) ==
    IF ~Truthy(alert) THEN <<>>
    ELSE <<[alert |-> alert, clip_path |-> clip_path]>>

\* a loop over the alerts without the break
HandledAll(alerts) == alerts

\* "for alert in alerts: ...; break": the alerts whose loop body runs
Handled(alerts) == IF alerts = <<>> THEN <<>> ELSE <<alerts[1]>>

\* the start_recording calls of those loop bodies, in order
RECURSIVE StartEach(_, _, _, _)
StartEach(r, recent, handled, t) ==
    IF handled = <<>> THEN r
    ELSE StartEach(StartRecording(r, recent, Head(handled), t), recent,
                   Tail(handled), t)

\* the alert types their record_alert calls pass
AlertTypesOf(handled) == [i \in 1..Len(handled) |-> handled[i].type]

NotCalled == [rec |-> ThisRecorder, ret |-> None, written |-> <<>>]

\* a loop that goes on whatever the flag is
LoopConditionIgnored(flag) == TRUE

\* "while self.running": the one place where the loop reads the flag
LoopCondition(flag) == flag

\* FishWatcher.start up to the loop: _setup_camera raises before the try block
start(opened) ==
    /\ kind = "FishWatcher"
    /\ pc = "init"
    /\ IF opened
       THEN /\ camera' = "open"
            /\ running' = TRUE
            /\ pc' = "loop"
       ELSE /\ pc' = "raised"
            /\ UNCHANGED <<camera, running>>
    /\ op' = "start"
    /\ UNCHANGED outsideVars
    /\ arg' = [opened |-> opened]
    /\ ret' = None
    /\ pre' = NoPre
    /\ fed' = {}
    /\ UNCHANGED <<now, bufferVars, recorderVars, detectorVars, kind, stopper, status,
                   notified, clips_recorded, alerts_recorded, read_failures>>

\* one iteration of FishWatcher's loop whose camera.read() failed
FishWatcherReadFailed(reopened) ==
    /\ now + 1 <= StartTime + LoopHorizon
    /\ read_failures < MaxReadFailures
    /\ read_failures' = read_failures + 1
    /\ now' = now + 1
    /\ IF reopened
       THEN /\ camera' = "open"
            /\ UNCHANGED <<running, pc>>
       ELSE \* RuntimeError: re-raised by the except clause, then stop()
            /\ running' = FALSE
            /\ camera' = "released"
            /\ pc' = "raised"
    /\ op' = "FishWatcherTick"
    /\ UNCHANGED outsideVars
    /\ arg' = [running |-> running, read_ok |-> FALSE, reopened |-> reopened]
    /\ ret' = None
    /\ pre' = Snapshot
    /\ fed' = {}
    /\ UNCHANGED <<bufferVars, recorderVars, detectorVars, kind, stopper, status,
                   notified, clips_recorded, alerts_recorded>>

\* one iteration of FishWatcher's loop whose camera.read() returned frame f;
\* the detectors do `outcomes` if asked, and the iteration takes d seconds
FishWatcherFrame(f, outcomes, d) ==
    LET buf1 == DequeAppend(buffer, BufferedFrame(FrameCopy(f), now, frame_count),
                            max_frames)
        a == IF recording THEN AddFrame(ThisRecorder, f, now) ELSE NotCalled
        u == Unpack2(a.ret)
        crashed == recording /\ ~u.ok
        saved == recording /\ u.ok /\ Truthy(u.first)
        detect == ~crashed /\ ~a.rec.recording
        p == Process(outcomes, last_alert_time, now)
        alerts == IF detect THEN p.all_alerts ELSE <<>>
        handled == Handled(alerts)
        started == handled # <<>>
        recent == GetRecent(buf1, pre_roll, now)
        rec2 == StartEach(a.rec, recent, handled, now)
    IN /\ now + d <= StartTime + LoopHorizon
       /\ BufferAdd(f)
       /\ SetRecorder(rec2)
       /\ sink' = sink \o a.written
       /\ notified' = IF saved THEN notified \o SendNotification(u.second, u.first)
                      ELSE notified
       /\ clips_recorded' = IF saved THEN clips_recorded + 1 ELSE clips_recorded
       /\ last_alert_time' = IF detect THEN p.last_alert_time ELSE last_alert_time
       /\ alerts_recorded' = alerts_recorded \o AlertTypesOf(handled)
       /\ IF crashed
          THEN \* the exception is re-raised by the except clause, then stop()
               /\ running' = FALSE
               /\ camera' = "released"
               /\ pc' = "raised"
               /\ now' = now
          ELSE /\ now' = now + d
               /\ UNCHANGED <<running, camera, pc>>
       /\ seeded' = IF started THEN recent ELSE seeded
       /\ live' = IF recording THEN Append(live, f)
                  ELSE IF started THEN <<>> ELSE live
       /\ emitted' = emitted \o Emissions(alerts)
       /\ faulted' = IF detect THEN faulted \cup Raisers(outcomes) ELSE faulted
       /\ op' = "FishWatcherTick"
       /\ UNCHANGED outsideVars
       /\ arg' = [running |-> running, read_ok |-> TRUE, frame |-> f]
       /\ ret' = [add_frame |-> a.ret, process |-> alerts, start_recording |-> handled]
       /\ pre' = Snapshot
       /\ fed' = (IF recording THEN {"add_frame"} ELSE {})
                 \cup (IF detect THEN {"process"} ELSE {})
       /\ UNCHANGED <<kind, stopper, status, read_failures>>

FishWatcherTick ==
    /\ kind = "FishWatcher"
    /\ pc = "loop"
    /\ LoopCondition(running)
    /\ \/ \E reopened \in BOOLEAN : FishWatcherReadFailed(reopened)
       \/ \E f \in Frames, outcomes \in [DOMAIN detectors -> DetectorOutcomes],
             d \in LoopSteps : FishWatcherFrame(f, outcomes, d)

\* SIGINT or SIGTERM delivered while FishWatcher.start is in its loop
_signal_handler ==
    /\ kind = "FishWatcher"
    /\ pc = "loop"
    /\ running' = FALSE
    /\ op' = "_signal_handler"
    /\ arg' = None
    /\ ret' = None
    /\ pre' = NoPre
    /\ fed' = {}
    /\ UNCHANGED <<now, bufferVars, recorderVars, detectorVars, kind, stopper, pc,
                   status, camera, notified, clips_recorded, alerts_recorded,
                   read_failures, outsideVars>>

\* the loop condition of FishWatcher.start is false: finally runs stop()
FishWatcherExit ==
    /\ kind = "FishWatcher"
    /\ pc = "loop"
    /\ ~LoopCondition(running)
    /\ running' = FALSE
    /\ camera' = "released"
    /\ pc' = "exited"
    /\ op' = "FishWatcherExit"
    /\ arg' = None
    /\ ret' = None
    /\ pre' = NoPre
    /\ fed' = {}
    /\ UNCHANGED <<now, bufferVars, recorderVars, detectorVars, kind, stopper,
                   status, notified, clips_recorded, alerts_recorded,
                   read_failures, outsideVars>>

\* TankWatcher.start and _run_loop up to the loop
_run_loop(opened) ==
    /\ kind = "TankWatcher"
    /\ pc = "init"
    /\ ~running
    /\ running' = TRUE
    /\ IF opened
       THEN /\ camera' = "open"
            /\ status' = "running"
            /\ pc' = "loop"
       ELSE \* RuntimeError caught by _run_loop's except clause
            /\ status' = "error"
            /\ pc' = "ended"
            /\ UNCHANGED camera
    /\ op' = "_run_loop"
    /\ UNCHANGED outsideVars
    /\ arg' = [opened |-> opened]
    /\ ret' = None
    /\ pre' = NoPre
    /\ fed' = {}
    /\ UNCHANGED <<now, bufferVars, recorderVars, detectorVars, kind, stopper,
                   notified, clips_recorded, alerts_recorded, read_failures>>

\* one iteration of TankWatcher's loop whose camera.read() failed
TankWatcherReadFailed(reopened) ==
    /\ now + 1 <= StartTime + LoopHorizon
    /\ read_failures < MaxReadFailures
    /\ read_failures' = read_failures + 1
    /\ now' = now + 1
    /\ status' = IF reopened THEN "running" ELSE "reconnecting"
    /\ camera' = IF reopened THEN "open" ELSE camera
    /\ op' = "TankWatcherTick"
    /\ UNCHANGED outsideVars
    /\ arg' = [running |-> running, read_ok |-> FALSE, reopened |-> reopened]
    /\ ret' = None
    /\ pre' = Snapshot
    /\ fed' = {}
    /\ UNCHANGED <<bufferVars, recorderVars, detectorVars, kind, stopper, running, pc,
                   notified, clips_recorded, alerts_recorded>>

\* one iteration of TankWatcher's loop whose camera.read() returned frame f
TankWatcherFrame(f, outcomes, d) ==
    LET buf1 == DequeAppend(buffer, BufferedFrame(FrameCopy(f), now, frame_count),
                            max_frames)
        a == IF recording THEN AddFrame(ThisRecorder, f, now) ELSE NotCalled
        u == Unpack2(a.ret)
        crashed == recording /\ ~u.ok
        saved == recording /\ u.ok /\ Truthy(u.first)
        detect == ~recording
        p == Process(outcomes, last_alert_time, now)
        alerts == IF detect THEN p.all_alerts ELSE <<>>
        handled == Handled(alerts)
        started == handled # <<>>
        recent == GetRecent(buf1, pre_roll, now)
        rec2 == StartEach(a.rec, recent, handled, now)
    IN /\ now + d <= StartTime + LoopHorizon
       /\ BufferAdd(f)
       /\ SetRecorder(rec2)
       /\ sink' = sink \o a.written
       /\ notified' = IF saved THEN notified \o SendNotification(u.second, u.first)
                      ELSE notified
       /\ clips_recorded' = IF saved THEN clips_recorded + 1 ELSE clips_recorded
       /\ last_alert_time' = IF detect THEN p.last_alert_time ELSE last_alert_time
       /\ alerts_recorded' = alerts_recorded \o AlertTypesOf(handled)
       /\ IF crashed
          THEN \* caught by _run_loop's except clause; finally releases the camera
               /\ status' = "error"
               /\ camera' = "released"
               /\ pc' = "ended"
               /\ now' = now
          ELSE /\ now' = now + d
               /\ UNCHANGED <<status, camera, pc>>
       /\ seeded' = IF started THEN recent ELSE seeded
       /\ live' = IF recording THEN Append(live, f)
                  ELSE IF started THEN <<>> ELSE live
       /\ emitted' = emitted \o Emissions(alerts)
       /\ faulted' = IF detect THEN faulted \cup Raisers(outcomes) ELSE faulted
       /\ op' = "TankWatcherTick"
       /\ UNCHANGED outsideVars
       /\ arg' = [running |-> running, read_ok |-> TRUE, frame |-> f]
       /\ ret' = [add_frame |-> a.ret, process |-> alerts, start_recording |-> handled]
       /\ pre' = Snapshot
       /\ fed' = (IF recording THEN {"add_frame"} ELSE {})
                 \cup (IF detect THEN {"process"} ELSE {})
       /\ UNCHANGED <<kind, stopper, running, read_failures>>

TankWatcherTick ==
    /\ kind = "TankWatcher"
    /\ pc = "loop"
    /\ LoopCondition(running)
    /\ \/ \E reopened \in BOOLEAN : TankWatcherReadFailed(reopened)
       \/ \E f \in Frames, outcomes \in [DOMAIN detectors -> DetectorOutcomes],
             d \in LoopSteps : TankWatcherFrame(f, outcomes, d)

\* TankWatcher.stop up to thread.join, called on a watcher that was started
\* (on one that was not, stop changes no field)
stop ==
    /\ kind = "TankWatcher"
    /\ pc # "init"
    /\ stopper = "idle"
    /\ running' = FALSE
    /\ stopper' = "joining"
    /\ op' = "stop"
    /\ arg' = None
    /\ ret' = None
    /\ pre' = NoPre
    /\ fed' = {}
    /\ UNCHANGED <<now, bufferVars, recorderVars, detectorVars, kind, pc,
                   status, camera, notified, clips_recorded, alerts_recorded,
                   read_failures, outsideVars>>

\* TankWatcher.stop from the return of thread.join(timeout=5): the loop thread
\* has ended or the five seconds are over
stop_joined ==
    /\ kind = "TankWatcher"
    /\ stopper = "joining"
    /\ camera' = "released"
    /\ status' = "stopped"
    /\ stopper' = "done"
    /\ op' = "stop"
    /\ arg' = None
    /\ ret' = None
    /\ pre' = NoPre
    /\ fed' = {}
    /\ UNCHANGED <<now, bufferVars, recorderVars, detectorVars, kind, running, pc,
                   notified, clips_recorded, alerts_recorded, read_failures,
                   outsideVars>>

\* the loop condition of TankWatcher._run_loop is false: finally releases the
\* camera and the thread ends
TankWatcherExit ==
    /\ kind = "TankWatcher"
    /\ pc = "loop"
    /\ ~LoopCondition(running)
    /\ camera' = "released"
    /\ pc' = "ended"
    /\ op' = "TankWatcherExit"
    /\ arg' = None
    /\ ret' = None
    /\ pre' = NoPre
    /\ fed' = {}
    /\ UNCHANGED <<now, bufferVars, recorderVars, detectorVars, kind, stopper,
                   running, status, notified, clips_recorded, alerts_recorded,
                   read_failures, outsideVars>>

-----------------------------------------------------------------------------
(* src/multi_tank.py: TankWatcher.start and TankWatcher.stop called again and
   again, by two threads; every thread start creates runs _run_loop *)

Callers == {"caller_1", "caller_2"}

CallerIdle == [pc |-> "idle", joins |-> 0]

\* the loop threads that have not ended
AliveLoops == {i \in DOMAIN loops : loops[i] # "ended"}

RestartUnchanged ==
    UNCHANGED <<now, bufferVars, recorderVars, detectorVars, kind, stopper, pc,
                notified, clips_recorded, alerts_recorded, read_failures, fed,
                callerVars, threadVars, tankVars,
                motion, zone, zone_log, fish_counter, cool, cool_log, lockVars>>

\* TankWatcher.start in thread c: "if self.running: return"
StartCheck(c) ==
    /\ callers[c].pc = "idle"
    /\ callers' = [callers EXCEPT ![c].pc = IF running THEN "idle" ELSE "checked"]
    /\ op' = "start"
    /\ arg' = [caller |-> c]
    /\ ret' = None
    /\ pre' = NoPre
    /\ UNCHANGED <<running, status, camera, loops, self_thread>>
    /\ RestartUnchanged

\* TankWatcher.start in thread c after the test: the flag is set, the thread
\* is created and started
StartThread(c) ==
    /\ callers[c].pc = "checked"
    /\ Len(loops) < MaxLoopThreads
    /\ running' = TRUE
    /\ loops' = Append(loops, "setup")
    /\ self_thread' = Len(loops) + 1
    /\ callers' = [callers EXCEPT ![c].pc = "idle"]
    /\ op' = "start"
    /\ arg' = [caller |-> c]
    /\ ret' = None
    /\ pre' = NoPre
    /\ UNCHANGED <<status, camera>>
    /\ RestartUnchanged

\* TankWatcher.stop in thread c up to thread.join(timeout=5)
StopBegin(c) ==
    /\ callers[c].pc = "idle"
    /\ running' = FALSE
    /\ callers' = [callers EXCEPT ![c] = [pc |-> "joining", joins |-> self_thread]]
    /\ op' = "stop"
    /\ arg' = [caller |-> c]
    /\ ret' = None
    /\ pre' = NoPre
    /\ UNCHANGED <<status, camera, loops, self_thread>>
    /\ RestartUnchanged

\* TankWatcher.stop in thread c from the return of join: the thread joined has
\* ended, or there was none, or the five seconds are over while that thread
\* is still inside an iteration
StopReturn(c) ==
    /\ callers[c].pc = "joining"
    /\ camera' = "released"
    /\ status' = "stopped"
    /\ callers' = [callers EXCEPT ![c] = CallerIdle]
    /\ op' = "stop"
    /\ arg' = [caller |-> c]
    /\ ret' = [timed_out |-> callers[c].joins \in AliveLoops]
    /\ pre' = NoPre
    /\ UNCHANGED <<running, loops, self_thread>>
    /\ RestartUnchanged

\* _run_loop in loop thread i up to the while: the camera is opened
LoopSetup(i) ==
    /\ i \in DOMAIN loops
    /\ loops[i] = "setup"
    /\ loops' = [loops EXCEPT ![i] = "while"]
    /\ camera' = "open"
    /\ status' = "running"
    /\ op' = "_run_loop"
    /\ arg' = [thread |-> i]
    /\ ret' = None
    /\ pre' = NoPre
    /\ UNCHANGED <<running, callers, self_thread>>
    /\ RestartUnchanged

\* "while self.running" in loop thread i: the thread begins an iteration, or
\* leaves the loop, releases the camera and ends
LoopWhile(i) ==
    /\ i \in DOMAIN loops
    /\ loops[i] = "while"
    /\ IF LoopCondition(running)
       THEN /\ loops' = [loops EXCEPT ![i] = "iteration"]
            /\ UNCHANGED camera
       ELSE /\ loops' = [loops EXCEPT ![i] = "ended"]
            /\ camera' = "released"
    /\ op' = "_run_loop"
    /\ arg' = [thread |-> i]
    /\ ret' = None
    /\ pre' = NoPre
    /\ UNCHANGED <<running, status, callers, self_thread>>
    /\ RestartUnchanged

\* loop thread i ends an iteration: camera.read(), buffer.add, the recorder or
\* the detector, the sleep
LoopIterationEnd(i) ==
    /\ i \in DOMAIN loops
    /\ loops[i] = "iteration"
    /\ loops' = [loops EXCEPT ![i] = "while"]
    /\ op' = "_run_loop"
    /\ arg' = [thread |-> i]
    /\ ret' = None
    /\ pre' = NoPre
    /\ UNCHANGED <<running, status, camera, callers, self_thread>>
    /\ RestartUnchanged

-----------------------------------------------------------------------------
(* src/recorder.py, src/buffer.py: the two locks, with a watch-loop thread and
   other threads calling the methods of one recorder and its buffer *)

Locks == {"recorder", "buffer"}
Workers == {"loop", "worker_1", "worker_2"}
BufferMethods == {"add", "get_all", "get_recent", "clear", "duration"}
RecorderMethods == {"start_recording", "start_recording_while_recording",
                    "add_frame"}

WorkerIdle == [method |-> "none", holds |-> <<>>, takes |-> <<>>]

\* a plan in which clear also takes the recorder's lock, inside its own
LockPlanClearTakesRecorder(method) ==
    IF method = "start_recording" THEN <<"recorder", "buffer">>
    ELSE IF method \in RecorderMethods THEN <<"recorder">>
    ELSE IF method = "clear" THEN <<"buffer", "recorder">>
    ELSE <<"buffer">>

\* the "with self.lock" blocks a method enters, outermost first:
\* start_recording calls buffer.get_recent inside its block unless it returns
\* at once because a recording is running; add_frame and _save_clip touch no
\* buffer; the buffer's methods touch no recorder
LockPlan(method) ==
    IF method = "start_recording" THEN <<"recorder", "buffer">>
    ELSE IF method \in RecorderMethods THEN <<"recorder">>
    ELSE <<"buffer">>

\* thread w waits for a lock another thread holds
Blocked(w) ==
    /\ workers[w].takes # <<>>
    /\ held[Head(workers[w].takes)] # "nobody"

LocksUnchanged ==
    UNCHANGED <<now, coreVars, motion, zone, zone_log, fish_counter, cool, cool_log,
                restartVars>>

\* thread w calls a method
Call(w, method) ==
    /\ workers[w].method = "none"
    /\ workers' = [workers EXCEPT ![w] =
                       [method |-> method, holds |-> <<>>, takes |-> LockPlan(method)]]
    /\ op' = "Call"
    /\ arg' = [worker |-> w, method |-> method]
    /\ ret' = None
    /\ pre' = NoPre
    /\ UNCHANGED held
    /\ LocksUnchanged

\* thread w enters the next "with" block of its method
Acquire(w) ==
    /\ workers[w].takes # <<>>
    /\ held[Head(workers[w].takes)] = "nobody"
    /\ held' = [held EXCEPT ![Head(workers[w].takes)] = w]
    /\ workers' = [workers EXCEPT ![w].holds = <<Head(workers[w].takes)>> \o @,
                                   ![w].takes = Tail(@)]
    /\ op' = "Acquire"
    /\ arg' = [worker |-> w, method |-> workers[w].method]
    /\ ret' = None
    /\ pre' = NoPre
    /\ LocksUnchanged

\* thread w leaves its innermost "with" block; the method returns when it
\* has left them all
Release(w) ==
    /\ workers[w].takes = <<>>
    /\ workers[w].holds # <<>>
    /\ held' = [held EXCEPT ![Head(workers[w].holds)] = "nobody"]
    /\ workers' = [workers EXCEPT ![w] =
                       IF Len(workers[w].holds) = 1 THEN WorkerIdle
                       ELSE [@ EXCEPT !.holds = Tail(@)]]
    /\ op' = "Release"
    /\ arg' = [worker |-> w, method |-> workers[w].method]
    /\ ret' = None
    /\ pre' = NoPre
    /\ LocksUnchanged

-----------------------------------------------------------------------------
(* src/multi_tank.py: TankWatcher._send_notification of every tank, on the  *)
(* one ClawdbotNotifier MultiTankWatcher.__init__ creates; src/notifier.py   *)

Tanks == {"tank_1", "tank_2"}

TankIdle == [pc |-> "idle", sent |-> 0, entry |-> None, history |-> <<>>]

\* the dict _log_alert appends for an alert whose message
\* _send_notification has prefixed with the tank's name
LogEntry(t, alert, clip_path) ==
    [type |-> alert.type, message |-> t, timestamp |-> alert.timestamp,
     clip_path |-> clip_path]

\* history[-100:]
Last100(history) ==
    IF Len(history) <= 100 THEN history
    ELSE SubSeq(history, Len(history) - 99, Len(history))

\* tank t's thread calls _send_notification(alert, clip_path): nothing for
\* no alert, else notifier.notify is entered
_send_notification(t, alert, clip_path) ==
    /\ tank[t].pc = "idle"
    /\ tank[t].sent < MaxNotifications
    /\ tank' = [tank EXCEPT ![t].sent = @ + 1,
                            ![t].pc = IF Truthy(alert) THEN "notify" ELSE "idle",
                            ![t].entry = IF Truthy(alert)
                                         THEN LogEntry(t, alert, clip_path)
                                         ELSE None]
    /\ op' = "_send_notification"
    /\ UNCHANGED innerVars
    /\ arg' = [tank |-> t, alert |-> alert]
    /\ ret' = None
    /\ pre' = NoPre
    /\ UNCHANGED <<now, bufferVars, recorderVars, detectorVars, loopVars, fed,
                   callerVars, threadVars, alert_log, pending_alert, logged>>

\* _log_alert in tank t's thread: the history file is read
LogAlertRead(t) ==
    /\ tank[t].pc = "notify"
    /\ tank' = [tank EXCEPT ![t].pc = "loaded", ![t].history = alert_log]
    /\ op' = "LogAlertRead"
    /\ UNCHANGED innerVars
    /\ arg' = [tank |-> t]
    /\ ret' = None
    /\ pre' = NoPre
    /\ UNCHANGED <<now, bufferVars, recorderVars, detectorVars, loopVars, fed,
                   callerVars, threadVars, alert_log, pending_alert, logged>>

\* _log_alert in tank t's thread: the entry is appended to what was read and
\* the file is written over
LogAlertWrite(t) ==
    /\ tank[t].pc = "loaded"
    /\ alert_log' = Last100(Append(tank[t].history, tank[t].entry))
    /\ logged' = Append(logged, tank[t].entry)
    /\ tank' = [tank EXCEPT ![t].pc = "logged", ![t].history = <<>>]
    /\ op' = "LogAlertWrite"
    /\ UNCHANGED innerVars
    /\ arg' = [tank |-> t]
    /\ ret' = None
    /\ pre' = NoPre
    /\ UNCHANGED <<now, bufferVars, recorderVars, detectorVars, loopVars, fed,
                   callerVars, threadVars, pending_alert>>

\* notify in tank t's thread: the pending-alert file is written over and the
\* result returned
NotifyWrite(t) ==
    /\ tank[t].pc = "logged"
    /\ pending_alert' = tank[t].entry
    /\ tank' = [tank EXCEPT ![t].pc = "idle", ![t].entry = None]
    /\ op' = "NotifyWrite"
    /\ UNCHANGED innerVars
    /\ arg' = [tank |-> t]
    /\ ret' = [success |-> TRUE]
    /\ pre' = NoPre
    /\ UNCHANGED <<now, bufferVars, recorderVars, detectorVars, loopVars, fed,
                   callerVars, threadVars, alert_log, logged>>

-----------------------------------------------------------------------------
(* Construction: the state after the objects' __init__ *)

\* RollingBuffer.__init__ for int(max_seconds * fps) = capacity
RollingBufferInit(capacity) ==
    /\ max_frames = capacity
    /\ constructed = Constructs(capacity)

InitObjects ==
    /\ now = StartTime
    /\ buffer = <<>>
    /\ frame_count = 0
    /\ recording = FALSE
    /\ recording_start = None
    /\ current_frames = <<>>
    /\ current_alert = None
    /\ last_alert_time = EmptyDict
    /\ running = FALSE
    /\ stopper = "idle"
    /\ pc = "init"
    /\ status = "stopped"
    /\ camera = "released"
    /\ sink = <<>>
    /\ notified = <<>>
    /\ clips_recorded = 0
    /\ alerts_recorded = <<>>
    /\ read_failures = 0
    /\ op = "init"
    /\ arg = None
    /\ ret = None
    /\ pre = NoPre
    /\ fed = {}
    /\ added = <<>>
    /\ cleared = FALSE
    /\ seeded = <<>>
    /\ live = <<>>
    /\ emitted = <<>>
    /\ faulted = {}

\* no thread is inside a buffer method
InitThreadsIdle ==
    /\ lock = {}
    /\ thread = [t \in Threads |-> IF t = Producer THEN ProducerIdle ELSE ReaderIdle]

\* ClawdbotNotifier.__init__ and the TankWatchers that were given the notifier
InitNotifier ==
    /\ alert_log = <<>>
    /\ pending_alert = None
    /\ tank = [t \in Tanks |-> TankIdle]
    /\ logged = <<>>

\* no thread is inside a method or a loop
InitIdle ==
    /\ InitThreadsIdle
    /\ InitNotifier
    /\ callers = [c \in Callers |-> CallerIdle]
    /\ loops = <<>>
    /\ self_thread = 0
    /\ held = [l \in Locks |-> "nobody"]
    /\ workers = [w \in Workers |-> WorkerIdle]

\* no caller keeps a frame object
InitCallers ==
    /\ caller_frame = None
    /\ InitIdle

InitMotionAndZone ==
    /\ motion = MotionDetectorInit(StartTime)
    /\ zone = ZoneDetectorInit
    /\ zone_log = <<>>

\* the single detectors as constructed
InitDetectorsFresh ==
    /\ InitMotionAndZone
    /\ fish_counter = FishCountDetectorInit(0)
    /\ cool = CoolMomentDetectorInit
    /\ cool_log = <<>>

InitOutside ==
    /\ InitCallers
    /\ InitDetectorsFresh

-----------------------------------------------------------------------------
(* Properties *)

IsTick == op \in {"FishWatcherTick", "TankWatcherTick"}

\* the detectors of the last process call produced an alert of type T
Triggered(T) ==
    \E i \in DOMAIN arg : \E j \in DOMAIN arg[i].alerts : arg[i].alerts[j] = T

Returned(T) == \E i \in DOMAIN ret : ret[i].type = T

\* C1: with capacity C >= 1 and N adds and no clear, get_all() is the last
\* min(N, C) added frames, oldest first, numbered N-min(N,C) .. N-1; the
\* length never exceeds C.
C1_BufferHoldsLastAdds ==
    max_frames >= 1 =>
        /\ Len(buffer) <= max_frames
        /\ ~cleared =>
             LET N == Len(added)
                 k == Min(N, max_frames)
             IN /\ Len(get_all) = k
                /\ \A i \in 1..k :
                      /\ get_all[i].frame = added[N - k + i]
                      /\ get_all[i].frame_number = N - k + i - 1

C1_Witness ==
    /\ op = "add"
    /\ ~cleared
    /\ max_frames = 2
    /\ Len(added) = 4

\* C2 (as claimed): a loop iteration whose add_frame reported no completed
\* save leaves the loop running, and every clip written has been handed to
\* the notifier exactly once and counted exactly once.
C2_RecordingCompletesAndNotifies ==
    /\ (IsTick /\ arg.read_ok /\ pre.recording /\ ret.add_frame = None)
          => pc = "loop"
    /\ Len(notified) = Len(sink)
    /\ clips_recorded = Len(sink)

\* an add_frame call on a recorder that was Recording, and the seconds since
\* recording_start at that call
AddFrameWhileRecording == op = "add_frame" /\ pre.recording
Elapsed == now - pre.recording_start.value
Finalized == ~recording

\* C3 (as claimed): add_frame while Recording finalizes the clip iff the
\* time since recording-start is at least pre_roll + post_roll.
C3_FinalizeAtTotalDuration ==
    AddFrameWhileRecording => (Finalized <=> Elapsed >= pre_roll + post_roll)

\* C3 (amended): add_frame while Recording finalizes the clip iff the time
\* since recording-start is at least post_roll; below that it only appends
\* the frame and the recorder stays Recording.
C3_FinalizeAtPostRoll ==
    AddFrameWhileRecording =>
        IF Elapsed >= post_roll
        THEN Finalized /\ ret.kind = "str" /\ ret.value # ""
        ELSE /\ recording
             /\ ret = None
             /\ current_frames = Append(pre.current_frames, arg)
             /\ recording_start = pre.recording_start
             /\ current_alert = pre.current_alert

C3_Witness ==
    /\ AddFrameWhileRecording
    /\ Elapsed = post_roll
    /\ Finalized

\* C4 (as claimed): a finalizing add_frame returns the written path together
\* with the triggering alert and leaves the recorder Idle with no frames and
\* no alert; any other add_frame returns no result.
C4_ReturnsPathAndAlert ==
    op = "add_frame" =>
        IF pre.recording /\ Finalized
        THEN /\ ret.kind = "tuple"
             /\ ret.value[1].kind = "str"
             /\ ret.value[2] = pre.current_alert
             /\ current_frames = <<>>
             /\ current_alert = None
        ELSE ret = None

\* C5: no two returned alerts of one type are emitted less than the cooldown
\* apart; a trigger of type T within the cooldown after T was emitted is
\* dropped and leaves T's last-emitted timestamp as it was.
C5_CooldownSpacing ==
    /\ \A i, j \in DOMAIN emitted :
          (i < j /\ emitted[i][1] = emitted[j][1])
             => emitted[j][2] - emitted[i][2] >= cooldown
    /\ op = "process" =>
          \A T \in AlertTypes :
             (/\ Triggered(T)
              /\ T \in DOMAIN pre.last_alert_time
              /\ now - pre.last_alert_time[T] < cooldown)
                => /\ ~Returned(T)
                   /\ last_alert_time[T] = pre.last_alert_time[T]

C5_Witness ==
    /\ op = "process"
    /\ \E T \in AlertTypes :
          /\ Triggered(T)
          /\ T \in DOMAIN pre.last_alert_time
          /\ now - pre.last_alert_time[T] < cooldown
          /\ ~Returned(T)
          /\ \E i, j \in DOMAIN emitted :
                i < j /\ emitted[i][1] = T /\ emitted[j][1] = T

\* C6 (as claimed): a trigger of type T that recurs e >= cooldown seconds
\* after T was last emitted, e = cooldown included, is returned by process.
C6_EligibleAtCooldown ==
    op = "process" =>
        \A T \in AlertTypes :
           (/\ Triggered(T)
            /\ T \in DOMAIN pre.last_alert_time
            /\ now - pre.last_alert_time[T] >= cooldown)
              => Returned(T)

\* C7 (as claimed): a loop iteration whose camera read failed leaves the loop
\* running, whether the reacquire attempt succeeded or not.
C7_ReadFailureKeepsLoop ==
    (IsTick /\ ~arg.read_ok) => pc = "loop"

\* C8: an iteration with a successful read gives the frame to add_frame when
\* the recorder was Recording, to the coordinator's process when it was not,
\* and never to both.
C8_FrameFedToExactlyOne ==
    (IsTick /\ arg.read_ok) =>
        fed = IF pre.recording THEN {"add_frame"} ELSE {"process"}

C8_Witness ==
    /\ IsTick
    /\ arg.read_ok
    /\ pre.recording
    /\ ret.add_frame.kind = "str"
    /\ fed = {"add_frame"}

\* C9: the frames of a recording are the get_recent(pre_roll) snapshot taken
\* at start_recording followed, in order, by the frames given to add_frame;
\* that sequence is what the video writer receives at finalization.
C9_ClipIsSeedThenLive ==
    /\ recording => current_frames = FramesOf(seeded) \o live
    /\ (AddFrameWhileRecording /\ Finalized) =>
          /\ sink # <<>>
          /\ sink[Len(sink)] = FramesOf(seeded) \o live
          /\ Len(sink[Len(sink)]) = Len(seeded) + Len(live)

C9_Witness ==
    /\ AddFrameWhileRecording
    /\ Finalized
    /\ Len(seeded) = 2
    /\ Len(live) = 2
    /\ seeded[1].frame # seeded[2].frame

\* C10: start_recording on a recorder that is Recording changes none of the
\* recording-start time, the frame list and the triggering alert.
C10_StartWhileRecordingIsNoOp ==
    (op = "start_recording" /\ pre.recording) =>
        /\ recording
        /\ recording_start = pre.recording_start
        /\ current_frames = pre.current_frames
        /\ current_alert = pre.current_alert

C10_Witness ==
    /\ op = "start_recording"
    /\ pre.recording
    /\ arg # pre.current_alert
    /\ now > pre.recording_start.value
    /\ buffer # <<>>
    /\ FramesOf(get_recent(pre_roll)) # current_frames

\* C11: the video sink is never handed an empty frame sequence, and when a
\* recording seeded from an empty buffer is finalized with zero accumulated
\* frames nothing is written and the recorder is Idle again with the frame
\* list and the triggering alert cleared.
C11_EmptyFinalizeResets ==
    /\ \A i \in DOMAIN sink : sink[i] # <<>>
    /\ (op = "_save_clip" /\ pre.recording /\ pre.current_frames = <<>>)
         => /\ ~recording
            /\ current_frames = <<>>
            /\ current_alert = None

\* C18: a clip path is reported as saved only when the video sink wrote the
\* file.
C18_SavedPathWasWritten ==
    (op = "_save_clip" /\ ret.kind = "str" /\ ret.value # "") => arg.opened

\* C12: when detectors raise during FishWatcherDetector.process the call
\* still returns: every alert of a detector that did not raise, whether it runs
\* before or after a faulty one, is returned if its type is out of cooldown,
\* and a detector that raised in an earlier call is run again like any other.
C12_FaultyDetectorIsolated ==
    op = "process" =>
        \A i \in DOMAIN arg :
            ~arg[i].raised =>
                \A j \in DOMAIN arg[i].alerts :
                    _check_cooldown(pre.last_alert_time, arg[i].alerts[j], now)
                        => Returned(arg[i].alerts[j])

C12_Witness ==
    /\ op = "process"
    /\ 1 \in faulted
    /\ ~arg[1].raised
    /\ arg[2].raised
    /\ \E T \in AlertTypes : arg[1].alerts = <<T>> /\ Returned(T)

\* C13: on a tick that finds the recorder Idle and whose detection returns a
\* non-empty list, start_recording is called exactly once, with the first
\* alert of the list; that alert is the recording's triggering alert and the
\* only one reported, and the other alerts of the tick start nothing.
C13_FirstAlertStartsRecording ==
    (IsTick /\ arg.read_ok /\ ~pre.recording /\ ret.process # <<>>)
        => /\ ret.start_recording = <<ret.process[1]>>
           /\ recording
           /\ current_alert = ret.process[1]
           /\ recording_start = Float(ret.process[1].timestamp)
           /\ alerts_recorded = <<ret.process[1].type>>

C13_Witness ==
    /\ IsTick
    /\ arg.read_ok
    /\ ~pre.recording
    /\ Len(ret.process) >= 2
    /\ ret.process[1] # ret.process[2]
    /\ current_alert = ret.process[1]

\* C30: an alert the coordinator returns in a position other than the first
\* is not passed to start_recording and not reported, but its type's
\* last-emitted timestamp is the alert's timestamp; and no type is returned
\* twice by the watch loop's detection within the cooldown.
C30_LaterAlertsOnlyStamped ==
    (IsTick /\ arg.read_ok) =>
        /\ \A i \in 2..Len(ret.process) :
             /\ \A j \in DOMAIN ret.start_recording :
                    ret.start_recording[j] # ret.process[i]
             /\ \A j \in DOMAIN alerts_recorded :
                    alerts_recorded[j] # ret.process[i].type
             /\ DictGet(last_alert_time, ret.process[i].type, 0)
                    = ret.process[i].timestamp
        /\ \A j, k \in DOMAIN emitted :
             (j < k /\ emitted[j][1] = emitted[k][1])
                 => emitted[k][2] - emitted[j][2] > cooldown

C30_Witness ==
    /\ IsTick
    /\ arg.read_ok
    /\ Len(ret.process) = 2
    /\ ret.start_recording = <<ret.process[1]>>
    /\ alerts_recorded = <<ret.process[1].type>>
    /\ notified = <<>>
    /\ DictGet(last_alert_time, ret.process[2].type, 0) = ret.process[2].timestamp

C23_FirstMotionCallIsSilent ==
    (op = "MotionDetector.process" /\ pre.prev_frame = None) =>
        /\ ret = <<>>
        /\ motion = [pre EXCEPT !.prev_frame = Gray(arg.frame)]
        /\ motion.motion_history = <<>>

C23_Witness ==
    /\ op = "MotionDetector.process"
    /\ pre.prev_frame = None
    /\ now - pre.last_motion_time > no_motion_threshold
    /\ ret = <<>>
    /\ motion.prev_frame = Gray(2)

\* the frames of the log from which the surface activity has been above the
\* threshold on every processed frame: index of the first of them
RunStart ==
    CHOOSE k \in DOMAIN zone_log :
        /\ \A j \in k..Len(zone_log) : zone_log[j].activity > surface_threshold
        /\ k = 1 \/ zone_log[k - 1].activity <= surface_threshold

\* C25: a frame with surface activity <= 5 resets the timer; the first frame
\* above 5 after a reset starts the timer and emits nothing; GASPING_SURFACE
\* is only emitted when the activity was above 5 on every processed frame
\* since a frame more than 60 s earlier, SURFACE_ACTIVITY only when that
\* continuous duration is more than 30 s and at most 60 s, and never both.
C25_SurfaceTimer ==
    op = "_check_surface_activity" =>
        /\ arg.surface_activity <= surface_threshold =>
              (zone.surface_activity_start = None /\ ret = <<>>)
        /\ (arg.surface_activity > surface_threshold
              /\ pre.surface_activity_start = None) =>
              (zone.surface_activity_start = Float(now) /\ ret = <<>>)
        /\ ret # <<>> =>
              /\ arg.surface_activity > surface_threshold
              /\ pre.surface_activity_start = Float(zone_log[RunStart].t)
              /\ RunStart < Len(zone_log)
              /\ ret = <<"gasping_surface">> =>
                    now - zone_log[RunStart].t > gasping_after
              /\ ret = <<"surface_activity">> =>
                    /\ now - zone_log[RunStart].t > surface_after
                    /\ now - zone_log[RunStart].t <= gasping_after
              /\ ret \in {<<"gasping_surface">>, <<"surface_activity">>}

C25_Witness ==
    /\ op = "_check_surface_activity"
    /\ ret = <<"gasping_surface">>
    /\ Len(zone_log) = 4
    /\ zone_log[1].activity = 5
    /\ zone_log[3].t - zone_log[2].t = 31

\* C24: once the baseline of a FishCountDetector exists, whatever its value,
\* a process call emits the missing-fish alert exactly when the median of the
\* last 10 counts is more than 1 below the expected count: the configured
\* fish_count when it is > 0, the baseline otherwise.
C24_MissingFishIffBelowExpected ==
    (op = "FishCountDetector.process" /\ fish_counter.baseline_count # None) =>
        LET expected == IF fish_counter.fish_count > 0 THEN fish_counter.fish_count
                        ELSE fish_counter.baseline_count.value
            median2 == Median2(LastN(fish_counter.count_history, recent_counts))
        IN (ret = <<"no_motion">>) <=> (median2 < 2 * (expected - 1))

\* an earlier call of the CoolMomentDetector returned a cool-moment alert
\* fewer than 300 s before the last call
EmittedWithinCooldown ==
    \E i \in 1..(Len(cool_log) - 1) :
        /\ cool_log[i].alerts # <<>>
        /\ now - cool_log[i].t < cool_moment_cooldown

\* C21: a process call made fewer than 300 s after the CoolMomentDetector
\* last emitted a cool-moment alert returns no alerts and leaves the activity
\* history, the baseline and the time of the last emission as they were,
\* whatever the frame.
C21_CoolMomentCooldown ==
    (op = "CoolMomentDetector.process" /\ EmittedWithinCooldown) =>
        /\ ret = <<>>
        /\ cool = pre

C21_Witness ==
    /\ op = "CoolMomentDetector.process"
    /\ EmittedWithinCooldown
    /\ arg.activity = 20
    /\ now - cool_log[1].t = 299
    /\ ret = <<>>
    /\ Len(cool.activity_history) = cool_baseline_after

\* C22: for every AlertType value and every capture time, the file name the
\* recorder builds is read back by get_clips and by get_clip_stats (split on
\* "_" at most twice) as the same capture date and time and the same
\* alert-type string, underscores included.
C22_ClipNameRoundTrip ==
    op = "ClipNamed" =>
        /\ ret.get_clips = [kind |-> "clip", timestamp |-> LocalTime(arg.t),
                            alert_type |-> Chars(arg.alert_type)]
        /\ ret.get_clip_stats = ret.get_clips

C22_Witness ==
    /\ op = "ClipNamed"
    /\ arg.alert_type = "fish_stuck_bottom"
    /\ arg.t = MaxCaptureDay * 86400 + 46805
    /\ ret.get_clips # None
    /\ ret.get_clips.alert_type = Chars("fish_stuck_bottom")
    /\ ret.get_clips.timestamp.hour = 13

\* C26: whatever the order of the start and stop calls of one TankWatcher, at
\* most one thread is inside an iteration of its watch loop, and at most one
\* loop thread is alive.
C26_AtMostOneLoopThread ==
    /\ Cardinality({i \in DOMAIN loops : loops[i] = "iteration"}) <= 1
    /\ Cardinality(AliveLoops) <= 1

\* C29: the two locks are only nested recorder-then-buffer: a thread that
\* waits for or takes the recorder's lock holds no lock, and only
\* start_recording holds one lock while it takes the other; so whenever a
\* thread is inside a method, some such thread is not blocked (no deadlock).
C29_LockOrderNoDeadlock ==
    /\ \A w \in Workers :
         /\ (workers[w].takes # <<>> /\ Head(workers[w].takes) = "recorder")
                => workers[w].holds = <<>>
         /\ Len(workers[w].holds) = 2
                => (workers[w].method = "start_recording"
                    /\ workers[w].holds = <<"buffer", "recorder">>)
    /\ (\E w \in Workers : workers[w].method # "none")
          => \E w \in Workers : workers[w].method # "none" /\ ~Blocked(w)

C29_Witness ==
    /\ workers["loop"].method = "start_recording"
    /\ workers["loop"].holds = <<"recorder">>
    /\ Blocked("loop")
    /\ workers["worker_1"].method = "get_recent"
    /\ held["buffer"] = "worker_1"
    /\ workers["worker_2"].method = "add_frame"
    /\ Blocked("worker_2")

\* C16: a RollingBuffer whose capacity int(max_seconds * fps) is zero or
\* negative is refused by the constructor, so no such buffer exists and none
\* has accepted an add.
C16_NonpositiveCapacityRejected ==
    max_frames <= 0 => (~constructed /\ added = <<>>)

\* C20: clear empties the buffer and leaves the sequence counter alone, so in
\* any interleaving of add and clear the k-th add is given number k-1: the
\* numbers grow strictly and none is used twice.
C20_ClearKeepsNumbering ==
    /\ op = "clear" => buffer = <<>>
    /\ frame_count = Len(added)
    /\ (op = "add" /\ max_frames >= 1)
         => buffer[Len(buffer)].frame_number = Len(added) - 1
    /\ \A i \in DOMAIN buffer :
         /\ buffer[i].frame_number < frame_count
         /\ i > 1 => buffer[i - 1].frame_number < buffer[i].frame_number

C20_Witness ==
    /\ op = "add"
    /\ cleared
    /\ Len(buffer) = 1
    /\ buffer[1].frame_number = 2

\* C19: add stores a copy: whatever the caller writes into its frame object
\* after add, every entry get_all() returns still has the content the frame
\* had when it was added.
C19_StoredFramesAreCopies ==
    \A i \in DOMAIN get_all :
        Content(get_all[i]) = added[get_all[i].frame_number + 1]

C19_Witness ==
    /\ op = "mutate"
    /\ get_all # <<>>
    /\ Content(get_all[Len(get_all)]) # caller_frame

\* C17: once the stop signal has cleared the running flag the loop starts no
\* tick: every tick began with the flag set, a loop that is still to evaluate
\* its condition with the flag cleared has done nothing since the stop, and
\* when it leaves at that evaluation the camera is released.
C17_StopEndsLoop ==
    /\ IsTick => arg.running
    /\ (pc = "loop" /\ ~running) => op \in {"_signal_handler", "stop"}
    /\ op \in {"FishWatcherExit", "TankWatcherExit"}
         => (camera = "released" /\ pc \in {"exited", "ended"})

C17_Witness ==
    /\ op \in {"FishWatcherExit", "TankWatcherExit"}
    /\ frame_count >= 1
    /\ recording
    /\ camera = "released"

\* the frame numbers of a list of BufferedFrame go up by one
Consecutive(frames) ==
    \A i \in 2..Len(frames) : frames[i].frame_number = frames[i - 1].frame_number + 1

Count(q, e) == Cardinality({i \in DOMAIN q : q[i] = e})

\* C14: the tanks share no mutable state, so no tank loses another tank's
\* update: every entry a tank's notification step has logged is in the alert
\* history as often as it was logged.
C14_TanksLoseNoUpdate ==
    \A i \in DOMAIN logged : Count(alert_log, logged[i]) >= Count(logged, logged[i])

\* the alert types the detectors that did not raise produced in the last
\* process call, in the order process examined them
RECURSIVE Produced(_)
Produced(outcomes) ==
    IF outcomes = <<>> THEN <<>>
    ELSE (IF Head(outcomes).raised THEN <<>> ELSE Head(outcomes).alerts)
         \o Produced(Tail(outcomes))

\* of a list of produced alert types, the first of every type that was out
\* of cooldown when the call began, in the order of the list
RECURSIVE FirstOfEachType(_, _)
FirstOfEachType(types, seen) ==
    IF types = <<>> THEN <<>>
    ELSE LET T == Head(types)
         IN IF T \notin seen /\ now - DictGet(pre.last_alert_time, T, 0) > cooldown
            THEN <<T>> \o FirstOfEachType(Tail(types), seen \cup {T})
            ELSE FirstOfEachType(Tail(types), seen)

\* C27: one process call returns at most one alert of a type, even when two
\* detectors produce the same type on the frame (no_motion comes from both
\* MotionDetector and FishCountDetector): the alerts returned are, in order,
\* the first alert of each type the detectors produced, the later ones of a
\* type are dropped.
C27_OneAlertPerType ==
    op = "process" =>
        /\ \A i, j \in DOMAIN ret : ret[i].type = ret[j].type => i = j
        /\ [i \in DOMAIN ret |-> ret[i].type] = FirstOfEachType(Produced(arg), {})

C27_Witness ==
    /\ op = "process"
    /\ arg[1] = Returns(<<"no_motion">>)
    /\ arg[2] = Returns(<<"no_motion">>)
    /\ Len(ret) = 1

-----------------------------------------------------------------------------
(* Specifications *)

InitBuffer ==
    /\ InitObjects
    /\ InitOutside
    /\ \E capacity \in -1..MaxCapacity : RollingBufferInit(capacity)
    /\ kind = "FishWatcher"

NextBuffer ==
    \/ \E f \in Frames : add(f)
    \/ clear
    \/ \E d \in BufferSteps : Pass(d, BufferHorizon)

SpecBuffer == InitBuffer /\ [][NextBuffer]_vars

\* a caller that adds one frame object again and again and writes into it
InitCaller ==
    /\ InitObjects
    /\ RollingBufferInit(MaxCapacity)
    /\ kind = "FishWatcher"
    /\ caller_frame \in Frames
    /\ InitIdle
    /\ InitDetectorsFresh

NextCaller ==
    \/ add(caller_frame)
    \/ \E v \in Frames : mutate(v)

SpecCaller == InitCaller /\ [][NextCaller]_vars

\* one producer thread and the reader threads on one buffer of capacity 1
InitThreads ==
    /\ InitObjects
    /\ InitOutside
    /\ RollingBufferInit(1)
    /\ kind = "FishWatcher"

NextThreads ==
    \/ \E f \in Frames : AddAcquire(f)
    \/ AddAppend
    \/ AddCount
    \/ \E r \in Readers, method \in Methods, seconds \in Windows :
          ReadCall(r, method, seconds)
    \/ \E r \in Readers : ReadLocked(r)
    \/ \E d \in BufferSteps : Pass(d, ThreadHorizon)

SpecThreads == InitThreads /\ [][NextThreads]_vars

\* the notification step of the tanks' loops, each tank in its own thread
InitTanks ==
    /\ InitObjects
    /\ InitOutside
    /\ RollingBufferInit(MaxCapacity)
    /\ kind = "TankWatcher"

NextTanks ==
    \/ \E t \in Tanks, alert \in {None} \cup {Alert(T, now) : T \in AlertTypes} :
          _send_notification(t, alert, Str("clip"))
    \/ \E t \in Tanks : LogAlertRead(t)
    \/ \E t \in Tanks : LogAlertWrite(t)
    \/ \E t \in Tanks : NotifyWrite(t)

SpecTanks == InitTanks /\ [][NextTanks]_vars

InitDetector ==
    /\ InitObjects
    /\ InitOutside
    /\ RollingBufferInit(1)
    /\ kind = "FishWatcher"

NextDetector ==
    \/ \E outcomes \in [DOMAIN detectors -> DetectorOutcomes] : process(outcomes)
    \/ \E d \in DetectorSteps : Pass(d, DetectorHorizon)

SpecDetector == InitDetector /\ [][NextDetector]_vars

NextZone ==
    \/ \E a \in Activities : _check_surface_activity(a)
    \/ \E d \in ZoneSteps : Pass(d, ZoneHorizon)

SpecZone == InitDetector /\ [][NextZone]_vars

\* a detector that has counted the same number of fish on 49 frames
InitFishCount ==
    /\ InitObjects
    /\ InitCallers
    /\ InitMotionAndZone
    /\ cool = CoolMomentDetectorInit
    /\ cool_log = <<>>
    /\ RollingBufferInit(1)
    /\ kind = "FishWatcher"
    /\ \E configured \in ConfiguredCounts, c \in Counts :
          fish_counter = [FishCountDetectorInit(configured) EXCEPT
                             !.count_history = [i \in 1..(baseline_after - 1) |-> c]]

NextFishCount == \E c \in Counts : FishCountDetectorProcess(c)

SpecFishCount == InitFishCount /\ [][NextFishCount]_vars

\* a detector that has processed 49 frames of low activity: no baseline yet
InitCool ==
    /\ InitObjects
    /\ InitCallers
    /\ InitMotionAndZone
    /\ fish_counter = FishCountDetectorInit(0)
    /\ RollingBufferInit(1)
    /\ kind = "FishWatcher"
    /\ cool = [CoolMomentDetectorInit EXCEPT
                  !.activity_history = [i \in 1..(cool_baseline_after - 1) |-> 1]]
    /\ cool_log = <<>>

NextCool ==
    \/ \E a \in CoolActivities : CoolMomentDetectorProcess(a)
    \/ \E d \in CoolSteps : Pass(d, CoolHorizon)

SpecCool == InitCool /\ [][NextCool]_vars

NextClipNames ==
    \E T \in AlertTypeValues, day \in {0, MaxCaptureDay}, sec \in CaptureSeconds :
        ClipNamed(T, day * 86400 + sec)

SpecClipNames == InitDetector /\ [][NextClipNames]_vars

NextRestart ==
    \/ \E c \in Callers : StartCheck(c)
    \/ \E c \in Callers : StartThread(c)
    \/ \E c \in Callers : StopBegin(c)
    \/ \E c \in Callers : StopReturn(c)
    \/ \E i \in 1..MaxLoopThreads : LoopSetup(i)
    \/ \E i \in 1..MaxLoopThreads : LoopWhile(i)
    \/ \E i \in 1..MaxLoopThreads : LoopIterationEnd(i)

SpecRestart == InitTanks /\ [][NextRestart]_vars

\* the watch loop calls add, add_frame and start_recording; the other threads
\* call anything
NextLocks ==
    \/ \E m \in {"add", "add_frame", "start_recording",
                  "start_recording_while_recording"} : Call("loop", m)
    \/ \E w \in Workers \ {"loop"}, m \in BufferMethods \cup RecorderMethods :
          Call(w, m)
    \/ \E w \in Workers : Acquire(w)
    \/ \E w \in Workers : Release(w)

SpecLocks == InitDetector /\ [][NextLocks]_vars

NextMotion ==
    \/ \E f \in Frames : MotionDetectorProcess(f)
    \/ \E d \in MotionSteps : Pass(d, MotionHorizon)

SpecMotion == InitDetector /\ [][NextMotion]_vars

InitRecorder ==
    /\ InitObjects
    /\ InitOutside
    /\ RollingBufferInit(MaxCapacity)
    /\ kind = "FishWatcher"

NextRecorder ==
    \/ \E f \in Frames : frame_count < MaxSeed /\ add(f)
    \/ \E T \in AlertTypes : start_recording(Alert(T, now))
    \/ \E f \in Frames : Len(live) < MaxLive /\ add_frame(f)
    \/ \E d \in RecorderSteps : Pass(d, RecorderHorizon)

SpecRecorder == InitRecorder /\ [][NextRecorder]_vars

NextSaveClip ==
    \/ NextRecorder
    \/ \E opened \in BOOLEAN : Len(sink) < MaxSaves /\ _save_clip(opened)

SpecSaveClip == InitRecorder /\ [][NextSaveClip]_vars

Init ==
    /\ InitObjects
    /\ InitOutside
    /\ RollingBufferInit(MaxCapacity)
    /\ kind \in {"FishWatcher", "TankWatcher"}

Next ==
    \/ \E opened \in BOOLEAN : start(opened)
    \/ FishWatcherTick
    \/ \E opened \in BOOLEAN : _run_loop(opened)
    \/ TankWatcherTick
    \/ _signal_handler
    \/ FishWatcherExit
    \/ stop
    \/ stop_joined
    \/ TankWatcherExit

Spec == Init /\ [][Next]_vars

====
